---- MODULE Spec2Model ----
(***************************************************************************)
(* Navigaze: the gaze event decoder (GazeDetector.update) and the Morse     *)
(* symbol decoder (MorseInputHandler.update) as state machines.            *)
(*                                                                         *)
(* Units.  Positions are integers in 1/1000 of the face height (0.48 is    *)
(* 480); times are integer milliseconds.  A mean of samples is kept as the *)
(* exact fraction num/den, and every comparison of the source is made on   *)
(* the cross-multiplied integers, so no rounding is introduced.            *)
(*                                                                         *)
(* Clock.  update reads now_ms = time.time() * 1000 and uses a stored time *)
(* stamp x only in the difference now_ms - x.  Each stamp is therefore     *)
(* kept as that difference, its age at the latest call: a tick that comes  *)
(* dt ms after the previous one adds dt to every age, and "x = now_ms"     *)
(* sets the age to 0.  The age of a stamp that is only compared with one   *)
(* delay stops growing at that delay (beyond it every comparison gives the *)
(* same answer); the age of gaze_start_time, which is also reported as     *)
(* gaze_duration_ms, stops growing at AgeCap.  The stamps that __init__    *)
(* sets to 0 start at their cap: the epoch clock is beyond every delay.    *)
(***************************************************************************)
EXTENDS Integers, Sequences, FiniteSets, TLC

\* ---------------------------------------------------------------- constants
threshold_up == 12
threshold_down == 5
baseline_frames == 15
hold_threshold_ms == 1000
blink_recovery_ms == 400
baseline_stable_ms == 300
settle_wait_ms == 1000
recalibration_needed_frames == 30
recent_positions_maxlen == 10
velocity_threshold == 170
\* MORSE_CONFIG and the submission delay of _check_neutral_hold
up_hold_time == 1000
neutral_hold_time == 1000
down_hold_time == 1000
submit_hold_ms == 3000
sequence_timeout_ms == 3000
prompt_timeout == 5000

\* ------------------------------------------------------------------- bounds
\* The age of gaze_start_time (the reported duration) saturates here.
AgeCap == 1200
\* Number of ticks explored from the first tick that reaches the gaze logic.
MaxGazeTicks == 4
\* Number of samples fed off the resting position while a baseline is collected.
MaxOffCentre == 1

\* Inputs.  Offsets against a baseline of 500: 480 -> +20 (Up), 494 -> +6
\* (inside the Up hysteresis band, neutral otherwise), 503 -> -3 (inside the
\* Down band, neutral otherwise), 510 -> -10 (Down).
Positions == {480, 494, 503, 510}
\* Positions offered while a baseline is being collected: the user is asked
\* to look straight ahead, at the resting position, and strays from it
\* MaxOffCentre times.
RestPositions == {500}
CalibPositions == RestPositions \cup {494, 503}
\* Time between two ticks.
Dts == {100, 300, 1000}

\* Reading movements: ticks 100 ms apart that jump between the resting position
\* and a position far below it (offset -400 against a baseline of 500, beyond
\* the Down entry threshold), MaxReadingTicks of them.
MaxReadingTicks == 12
ReadingPositions == {500, 900}
ReadingDts == {100}

\* Morse input: the number of events with gaze_detected fed to the handler,
\* and the time between two ticks (3000 takes a neutral hold past both of
\* its delays in one step).
MaxSymbols == 3
MorseDts == {500, 1000, 3000}
\* Settling down: the number of ticks with head motion or a blink, and the
\* time between two ticks.
MaxDisturbed == 2
SettleDts == {100, 1000}
\* Holds: the number of symbols entered, and the time between two ticks.
MaxHeld == 3
HoldDts == {1000}
\* Sequences: the time between two calls on the SequenceManager (0: the
\* calls of one tick) and the current_mode values its caller passes.
SeqDts == {0, 1000, 2000}
Modes == {"TAB", "SCROLL", "PROMPT"}
\* Dispatch: the number of fired events handed to both consumers, and the
\* time between two ticks.
MaxDispatched == 4
DispatchDts == {1000}
\* Pipeline: the number of ticks explored from the first one that reaches the
\* gaze logic, the time between two ticks, and the positions fed: 100 is far
\* above the resting position (offset +400), so that a jump to or from it is
\* a fast movement.
MaxPipelineTicks == 5
PipelineDts == {300, 1000}
PipelinePositions == {100, 480, 500, 510}
\* Typing: the number of symbols typed, and the time between two ticks.
MaxTyped == 7
TypingDts == {1000}

VARIABLES
    self,                 \* the GazeDetector instance (its attributes)
    event,                \* the dict returned by the latest update call
    inp,                  \* the arguments of the latest update call
    \* history variables (not program state)
    fires,                \* fired events since the current gazing state began
    entered,              \* age of the tick at which the current gazing state began
    blink_tick,           \* age of the latest tick called with is_blinking = true
    established,          \* age of the tick at which baseline_y last became a value
    head_ever,            \* some tick had head_moving = true
    \* the next three only while head_ever is false
    nb_count,             \* non-blink ticks fed so far, counted up to baseline_frames
    nb_sum,               \* sum of their positions, until the tick after the last of them
    after_n,              \* the latest tick came after the baseline_frames-th non-blink tick
    gaze_ticks,           \* ticks since the first one that reached the gaze logic
    off_centre,           \* ticks fed off the resting position while a baseline was collected
    fed,                  \* the positions of all ticks that reached the gaze logic, oldest first
    disturbed,            \* ticks called with head_moving or is_blinking (counted when bounded)
    stopped               \* age of the latest tick without head_moving that followed one with it

history == <<fires, entered, blink_tick, established, nb_count, nb_sum, after_n, head_ever,
             gaze_ticks, off_centre, fed, disturbed, stopped>>

detector_vars == <<self, event, inp, history>>

VARIABLES
    handler,              \* the MorseInputHandler instance (its attributes)
    result,               \* what the latest MorseInputHandler.update call returned
    callback,             \* the texts on_text_submitted was called with during that call
    gaze_result,          \* the arguments of that call
    \* history variables (not program state)
    det_state,            \* the gaze state of the detector that produces the events
    symbols,              \* events with gaze_detected fed so far
    run_dir,              \* direction the latest tick reported (NONE with head_moving):
                          \* a run is a maximal series of ticks with the same run_dir
    neutral_run,          \* age of the first tick of the current run of neutral ticks
    marks                 \* what the latest call executed, and counts per run:
                          \*   hold        the hold action it executed (lines 130-157)
                          \*   holds       hold actions executed in the current run
                          \*   looked      the buffers it gave to morse_dict.get, in order
                          \*   run_lookups buffers looked up by _check_neutral_hold in
                          \*               the current run of neutral ticks
                          \*   run_age     age of the first tick of the current Up or Down run
                          \*   run_fired   that tick had gaze_detected
                          \*   neutral_age now_ms - neutral_hold_start as the call read it

morse_vars == <<handler, result, callback, gaze_result, det_state, symbols, run_dir,
                neutral_run, marks>>

VARIABLES
    manager,              \* the SequenceManager instance (its attributes)
    sequences,            \* its registry self.sequences, in insertion order
    sequence_result,      \* what the latest call on the manager returned
    \* history variables (not program state)
    call,                 \* the latest call on the manager, its arguments, the list before it
    attempt               \* time since the list last went from empty or reset to one direction

sequence_vars == <<manager, sequences, sequence_result, call, attempt>>

VARIABLES
    tick,                 \* the event of the current tick and who has been handed it
    expected              \* history: what handing it to the handler, then to the manager, gives

dispatch_vars == <<tick, expected>>

VARIABLES
    held                  \* history: hold actions executed since the latest fired event

pipeline_vars == <<held>>

VARIABLES
    twin                  \* history: a GazeDetector constructed when reset was last called
                          \* and fed with the same arguments since (on: reset was called)

reset_vars == <<twin>>

vars == <<detector_vars, morse_vars, sequence_vars, dispatch_vars, pipeline_vars, reset_vars>>

\* ------------------------------------------------------------------ helpers
Min(a, b) == IF a < b THEN a ELSE b

Abs(x) == IF x < 0 THEN -x ELSE x

\* now_ms - stamp, dt ms after the call at which it was age.
Aged(age, dt, cap) == Min(age + dt, cap)

NoBaseline == [num |-> 0, den |-> 0]

EmptySamples == [sum |-> 0, len |-> 0]

HasBaseline(b) == b.den # 0

\* self.samples.append(p); only sum() and len() of the list are ever read.
AppendSample(s, p) == [sum |-> s.sum + p, len |-> s.len + 1]

\* sum(self.samples) / len(self.samples), float(np.mean(self.samples))
Mean(s) == [num |-> s.sum, den |-> s.len]

\* (baseline_y - pupil_relative) * den
GazeOffset(b, p) == b.num - p * b.den

\* (mutant) the buffer is not bounded.
AppendRecent_Unbounded(q, p) == Append(q, p)

\* deque(maxlen=10).append
AppendRecent(q, p) ==
    IF Len(q) >= recent_positions_maxlen THEN Append(Tail(q), p) ELSE Append(q, p)

RECURSIVE SumAbsDiff(_)
SumAbsDiff(q) ==
    IF Len(q) < 2 THEN 0
    ELSE Abs(q[2] - q[1]) + SumAbsDiff(Tail(q))

\* calculate_velocity() followed by is_reading_movement(velocity):
\* mean(|q[i] - q[i-1]|) > velocity_threshold, 0.0 below three positions.
IsReadingMovement(q) ==
    /\ Len(q) >= 3
    /\ SumAbsDiff(q) > velocity_threshold * (Len(q) - 1)

\* Lines 136 and 183: now_ms - stamp < delay.
Within(age, delay) == age < delay

\* (mutant) the settle window is not waited for.
IsStabilizing_Skipped(age) == FALSE

\* Line 208: now_ms - baseline_stable_time < baseline_stable_ms.
IsStabilizing(age) == age < baseline_stable_ms

\* (mutant) the two entry thresholds are exchanged.
PhysicalState_Swapped(state, b, p) ==
    IF state = "UP"
    THEN IF 10 * GazeOffset(b, p) > 4 * threshold_up * b.den THEN "UP" ELSE "NONE"
    ELSE IF state = "DOWN"
    THEN IF 10 * GazeOffset(b, p) < -(4 * threshold_down * b.den) THEN "DOWN" ELSE "NONE"
    ELSE IF GazeOffset(b, p) > threshold_down * b.den THEN "UP"
    ELSE IF GazeOffset(b, p) < -(threshold_up * b.den) THEN "DOWN"
    ELSE "NONE"

\* (mutant) no hysteresis: a gazing state is left below the entry threshold.
PhysicalState_NoHysteresis(state, b, p) ==
    IF state = "UP"
    THEN IF GazeOffset(b, p) > threshold_up * b.den THEN "UP" ELSE "NONE"
    ELSE IF state = "DOWN"
    THEN IF GazeOffset(b, p) < -(threshold_down * b.den) THEN "DOWN" ELSE "NONE"
    ELSE IF GazeOffset(b, p) > threshold_up * b.den THEN "UP"
    ELSE IF GazeOffset(b, p) < -(threshold_down * b.den) THEN "DOWN"
    ELSE "NONE"

\* (mutant) the entry thresholds are tried in every state, before the
\* hysteresis band.
PhysicalState_Direct(state, b, p) ==
    IF GazeOffset(b, p) > threshold_up * b.den THEN "UP"
    ELSE IF GazeOffset(b, p) < -(threshold_down * b.den) THEN "DOWN"
    ELSE IF state = "UP" /\ 10 * GazeOffset(b, p) > 4 * threshold_up * b.den THEN "UP"
    ELSE IF state = "DOWN" /\ 10 * GazeOffset(b, p) < -(4 * threshold_down * b.den)
    THEN "DOWN"
    ELSE "NONE"

\* Lines 240-256: the physical gaze state with hysteresis.
PhysicalState(state, b, p) ==
    IF state = "UP"
    THEN IF 10 * GazeOffset(b, p) > 4 * threshold_up * b.den THEN "UP" ELSE "NONE"
    ELSE IF state = "DOWN"
    THEN IF 10 * GazeOffset(b, p) < -(4 * threshold_down * b.den) THEN "DOWN" ELSE "NONE"
    ELSE IF GazeOffset(b, p) > threshold_up * b.den THEN "UP"
    ELSE IF GazeOffset(b, p) < -(threshold_down * b.den) THEN "DOWN"
    ELSE "NONE"

\* (mutant) the fired flag is cleared on every tick.
FiredAfterChange_Cleared(changed, fired) == FALSE

\* Lines 259-263: gaze_already_fired after the state-change check.
FiredAfterChange(changed, fired) == IF changed THEN FALSE ELSE fired

\* (mutant) the hold timer is not restarted when the state changes.
StartAfterChange_Kept(changed, state, phys, start) == start

\* (mutant) the hold timer is restarted only when a gaze is left.
StartAfterChange_OnExit(changed, state, phys, start) ==
    IF changed /\ phys = "NONE" THEN 0 ELSE start

\* Lines 259-270: now_ms - gaze_start_time after the state-change check.
StartAfterChange(changed, state, phys, start) ==
    IF changed THEN 0
    ELSE IF state = "NONE" /\ phys # "NONE" THEN 0
    ELSE start

\* Line 275.
HeldLongEnough(duration) == duration >= hold_threshold_ms

\* The returned dict.  A key the dict does not carry reads as the default the
\* callers use (result.get('is_continuous_gaze', False)); has_continuous and
\* has_duration tell whether the key is present.
Event(detected, dir, ready, reason, hasc, cont, hasd, dur) ==
    [gaze_detected |-> detected, direction |-> dir,
     baseline_established |-> ready, disabled_reason |-> reason,
     has_continuous |-> hasc, is_continuous_gaze |-> cont,
     has_duration |-> hasd, gaze_duration_ms |-> dur]

Disabled(ready, reason) ==
    Event(FALSE, "NONE", ready, reason, FALSE, FALSE, FALSE, 0)

\* A time stamp that is None.
NoTime == -1

\* The value update returns: None, or the dict of lines 207-210.
NoResult == [text_submitted |-> FALSE, submitted_text |-> <<>>]

\* MorseInputHandler.__init__.  current_text is a sequence of characters and
\* current_morse a sequence of "." and "-".  The attributes update never
\* touches (current_word aside from its clearing, current_gaze_state,
\* last_gaze_state, gaze_stable_time, gaze_start_time, last_gaze_direction),
\* the cursor blink and the keyboard are left out.
InitMorse ==
    /\ handler = [current_text |-> <<>>,
                  current_morse |-> <<>>,
                  hold_start_time |-> NoTime,
                  hold_direction |-> "NONE",
                  hold_executed |-> FALSE,
                  neutral_hold_start |-> NoTime,
                  letter_completed |-> FALSE,
                  pending_hold_symbol |-> "NONE"]
    /\ result = NoResult
    /\ callback = <<>>
    /\ gaze_result = [gaze_detected |-> FALSE, direction |-> "NONE",
                      baseline_established |-> FALSE, head_moving |-> FALSE]
    /\ det_state = "NONE"
    /\ symbols = 0
    /\ run_dir = "NONE"
    /\ neutral_run = NoTime
    /\ marks = [hold |-> "NONE", holds |-> 0, looked |-> <<>>, run_lookups |-> 0,
                run_age |-> NoTime, run_fired |-> FALSE, neutral_age |-> NoTime]

\* (mutant) two names are exchanged.
Registered_Renamed ==
    << [name |-> "enter", pattern |-> <<"UP", "DOWN", "UP", "DOWN">>],
       [name |-> "mode_switch", pattern |-> <<"DOWN", "UP", "DOWN", "UP">>],
       [name |-> "escape", pattern |-> <<"UP", "UP", "DOWN", "DOWN">>],
       [name |-> "windows", pattern |-> <<"DOWN", "DOWN", "UP", "UP">>] >>

\* SequenceManager.__init__: lines 21-39, in the order the dict iterates.
Registered ==
    << [name |-> "mode_switch", pattern |-> <<"UP", "DOWN", "UP", "DOWN">>],
       [name |-> "enter", pattern |-> <<"DOWN", "UP", "DOWN", "UP">>],
       [name |-> "escape", pattern |-> <<"UP", "UP", "DOWN", "DOWN">>],
       [name |-> "windows", pattern |-> <<"DOWN", "DOWN", "UP", "UP">>] >>

\* Registries whose patterns share a prefix: a two-direction pattern and a
\* four-direction pattern that begins with it, registered in either order.
ShortFirst ==
    << [name |-> "confirm", pattern |-> <<"UP", "DOWN">>],
       [name |-> "mode_switch", pattern |-> <<"UP", "DOWN", "UP", "DOWN">>] >>

LongFirst ==
    << [name |-> "mode_switch", pattern |-> <<"UP", "DOWN", "UP", "DOWN">>],
       [name |-> "confirm", pattern |-> <<"UP", "DOWN">>] >>

Registries == {Registered, ShortFirst, LongFirst}

\* The value a call returns.  Keys a dict lacks are FALSE, "" or <<>>;
\* current_sequence and completed_sequence hold the list that the code joins
\* with '-'; is_none is a return of None.
NoSequenceResult ==
    [is_none |-> TRUE, sequence_complete |-> FALSE, sequence_type |-> "",
     current_sequence |-> <<>>, timeout |-> FALSE, invalid_cleared |-> FALSE,
     completed_sequence |-> <<>>, sequence_cleared |-> FALSE, mode |-> ""]

\* Lines 13-19 with the registry reg.  The two start times are 0, the epoch:
\* their ages are past every delay.
InitSequence(reg) ==
    /\ manager = [sequence_pattern |-> <<>>,
                  sequence_start_time |-> sequence_timeout_ms + 1,
                  prompt_start_time |-> prompt_timeout + 1]
    /\ sequences = reg
    /\ sequence_result = NoSequenceResult
    /\ call = [op |-> "none", direction |-> "NONE", mode |-> "", dt |-> 0,
               before |-> <<>>]
    /\ attempt = sequence_timeout_ms + 1

\* The attributes that GazeDetector.__init__ sets and update reads.  The
\* stamps that are set to 0 are at their caps.
Constructed ==
    [baseline_y |-> NoBaseline,
     samples |-> EmptySamples,
     last_blink_time |-> blink_recovery_ms,
     baseline_stable_time |-> baseline_stable_ms,
     current_gaze_state |-> "NONE",
     gaze_already_fired |-> FALSE,
     gaze_start_time |-> AgeCap,
     is_continuous_gaze |-> FALSE,
     recalibrating |-> FALSE,
     head_was_moving |-> FALSE,
     head_settled_time |-> settle_wait_ms,
     recalibration_frames |-> 0,
     recent_positions |-> <<>>]

\* No reset has been called.
InitReset ==
    twin = [on |-> FALSE, self |-> Constructed, event |-> Disabled(FALSE, "NO_CALL")]

\* GazeDetector.__init__ (and the handler, which the detector's
\* specifications leave alone)
InitDetector ==
    /\ self = Constructed
    /\ event = Disabled(FALSE, "NO_CALL")
    /\ inp = [pupil_relative |-> 0, head_moving |-> FALSE, is_blinking |-> FALSE]
    /\ fires = 0
    /\ entered = AgeCap
    /\ blink_tick = blink_recovery_ms
    /\ established = baseline_stable_ms
    /\ nb_count = 0
    /\ nb_sum = 0
    /\ after_n = FALSE
    /\ head_ever = FALSE
    /\ gaze_ticks = 0
    /\ off_centre = 0
    /\ fed = <<>>
    /\ disturbed = 0
    /\ stopped = settle_wait_ms

\* No tick is being dispatched.
InitDispatch ==
    /\ tick = [g |-> [gaze_detected |-> FALSE, direction |-> "NONE",
                      baseline_established |-> FALSE],
               dt |-> 0, morse |-> TRUE, sequence |-> TRUE, first |-> "none"]
    /\ expected = [handler |-> handler, result |-> result, callback |-> callback,
                   manager |-> manager, sequence_result |-> sequence_result]

InitPipeline == held = 0

\* The three components after construction.
Init == InitMorse /\ InitDetector /\ InitSequence(Registered) /\ InitDispatch /\ InitPipeline /\ InitReset

\* The same with a registry of patterns that share a prefix.
InitRegistry ==
    /\ InitMorse /\ InitDetector
    /\ \E reg \in Registries : InitSequence(reg)
    /\ InitDispatch /\ InitPipeline /\ InitReset

\* ------------------------------------------------- the branches of update
\* Each takes s, the instance with its stamps aged to this call, and gives
\* the instance after the call; the ...Event operator gives the dict returned.

\* Lines 110-119.
HeadMoving(s) ==
    [(IF ~s.recalibrating
      THEN [s EXCEPT !.recalibrating = TRUE,
                     !.baseline_y = NoBaseline,
                     !.samples = EmptySamples,
                     !.current_gaze_state = "NONE",
                     !.gaze_already_fired = FALSE]
      ELSE s)
     EXCEPT !.head_was_moving = TRUE]

\* (mutant) the settle timer is started once and never restarted.
HeadStopped_Once(s) ==
    IF s.head_was_moving
    THEN [s EXCEPT !.head_was_moving = FALSE,
                   !.head_settled_time = IF @ >= settle_wait_ms THEN 0 ELSE @]
    ELSE s

\* Lines 127-130.
HeadStopped(s) ==
    IF s.head_was_moving
    THEN [s EXCEPT !.head_was_moving = FALSE, !.head_settled_time = 0]
    ELSE s

\* Line 136.  A head_settled_time of 0 has an age of settle_wait_ms.
IsSettling(s) == Within(s.head_settled_time, settle_wait_ms)

\* (mutant) the count of recalibration frames is not kept.
Recalibrate_Restarts(s, p) ==
    [s EXCEPT !.samples = AppendSample(EmptySamples, p), !.recalibration_frames = 0]

\* Lines 146-161.
Recalibrate(s, p) ==
    LET s0 == IF s.recalibration_frames = 0 THEN EmptySamples ELSE s.samples
        s1 == AppendSample(s0, p)
        n1 == s.recalibration_frames + 1
    IN  IF n1 >= recalibration_needed_frames
        THEN [s EXCEPT !.samples = s1,
                       !.baseline_y = Mean(s1),
                       !.baseline_stable_time = 0,
                       !.recalibrating = FALSE,
                       !.head_settled_time = settle_wait_ms,
                       !.recalibration_frames = 0]
        ELSE [s EXCEPT !.samples = s1, !.recalibration_frames = n1]

\* (mutant) a blink also drops the continuous flag.
Blinking_DropsContinuous(s) ==
    [s EXCEPT !.last_blink_time = 0, !.is_continuous_gaze = FALSE]

\* Line 173.
Blinking(s) == [s EXCEPT !.last_blink_time = 0]

\* (mutant) a blink tick keeps reporting the direction of the gaze state.
BlinkingEvent_LastDirection(s) ==
    Event(FALSE, s.current_gaze_state, HasBaseline(s.baseline_y), "BLINKING",
          FALSE, FALSE, FALSE, 0)

\* Lines 174-180, the dict returned on a blink tick.
BlinkingEvent(s) == Disabled(HasBaseline(s.baseline_y), "BLINKING")

\* Lines 193-198.
EstablishBaseline(s, p) ==
    LET s1 == AppendSample(s.samples, p)
    IN  IF s1.len >= baseline_frames
        THEN [s EXCEPT !.samples = s1,
                       !.baseline_y = Mean(s1),
                       !.baseline_stable_time = 0]
        ELSE [s EXCEPT !.samples = s1]

\* Lines 219-287, state.
DetectGaze(s, p) ==
    LET q1 == AppendRecent(s.recent_positions, p)
        phys == PhysicalState(s.current_gaze_state, s.baseline_y, p)
        changed == phys # s.current_gaze_state
        state1 == IF changed THEN phys ELSE s.current_gaze_state
        fired0 == FiredAfterChange(changed, s.gaze_already_fired)
        start1 == StartAfterChange(changed, s.current_gaze_state, phys, s.gaze_start_time)
    IN  IF IsReadingMovement(q1)
        THEN [s EXCEPT !.recent_positions = q1]
        ELSE [s EXCEPT !.recent_positions = q1,
                       !.current_gaze_state = state1,
                       !.gaze_start_time = start1,
                       !.is_continuous_gaze = (state1 # "NONE" /\ HeldLongEnough(start1)),
                       !.gaze_already_fired = (fired0 \/ state1 # "NONE")]

\* Lines 228-237 and 282-327, the dict returned: s is the instance before
\* and s1 the instance after DetectGaze.
DetectGazeEvent(s, s1) ==
    LET changed == s1.current_gaze_state # s.current_gaze_state
        fired0 == FiredAfterChange(changed, s.gaze_already_fired)
        dur == IF s1.current_gaze_state # "NONE" THEN s1.gaze_start_time ELSE 0
    IN  IF IsReadingMovement(s1.recent_positions)
        THEN Disabled(TRUE, "READING_MOVEMENT")
        ELSE IF s1.current_gaze_state # "NONE" /\ ~fired0
        THEN Event(TRUE, s1.current_gaze_state, TRUE, "None",
                   TRUE, s1.is_continuous_gaze, TRUE, dur)
        ELSE IF s1.current_gaze_state # "NONE" /\ s1.is_continuous_gaze
        THEN Event(FALSE, s1.current_gaze_state, TRUE, "None",
                   TRUE, s1.is_continuous_gaze, TRUE, dur)
        ELSE Event(FALSE, s1.current_gaze_state, TRUE, "None",
                   TRUE, s1.is_continuous_gaze, FALSE, 0)

\* The stamps of the instance dt ms later.
Tick(s, dt) ==
    [s EXCEPT !.last_blink_time = Aged(@, dt, blink_recovery_ms),
              !.baseline_stable_time = Aged(@, dt, baseline_stable_ms),
              !.gaze_start_time = Aged(@, dt, AgeCap),
              !.head_settled_time = Aged(@, dt, settle_wait_ms)]

\* History variables of a tick with arguments p, hm, bl, dt ms after the
\* previous one.
Record(p, hm, bl, dt) ==
    /\ inp' = [pupil_relative |-> p, head_moving |-> hm, is_blinking |-> bl]
    /\ fires' = IF self'.current_gaze_state = "NONE" THEN 0
                ELSE (IF self'.current_gaze_state # self.current_gaze_state THEN 0 ELSE fires)
                     + (IF event'.gaze_detected THEN 1 ELSE 0)
    /\ entered' = IF self'.current_gaze_state = "NONE" THEN AgeCap
                  ELSE IF self'.current_gaze_state # self.current_gaze_state THEN 0
                  ELSE Aged(entered, dt, AgeCap)
    /\ blink_tick' = IF bl THEN 0 ELSE Aged(blink_tick, dt, blink_recovery_ms)
    /\ established' = IF ~HasBaseline(self'.baseline_y) THEN baseline_stable_ms
                      ELSE IF self'.baseline_y # self.baseline_y THEN 0
                      ELSE Aged(established, dt, baseline_stable_ms)
    /\ head_ever' = (head_ever \/ hm)
    /\ after_n' = (~head_ever' /\ nb_count = baseline_frames)
    /\ nb_count' = IF head_ever' THEN 0
                   ELSE IF ~bl /\ nb_count < baseline_frames THEN nb_count + 1
                   ELSE nb_count
    /\ nb_sum' = IF head_ever' \/ after_n' THEN 0
                 ELSE IF ~bl /\ nb_count < baseline_frames THEN nb_sum + p
                 ELSE nb_sum
    /\ stopped' = IF hm THEN settle_wait_ms
                  ELSE IF inp.head_moving THEN 0
                  ELSE Aged(stopped, dt, settle_wait_ms)

\* GazeDetector.update(pupil_relative, head_moving, is_blinking), called dt
\* milliseconds after the previous call.
Update(p, hm, bl, dt) ==
    LET s == Tick(self, dt)
        h == HeadStopped(s)
    IN  /\ IF hm
           THEN /\ self' = HeadMoving(s)
                /\ event' = Disabled(FALSE, "RECALIBRATING")
           ELSE IF h.recalibrating
           THEN IF IsSettling(h)
                THEN /\ self' = h
                     /\ event' = Disabled(FALSE, "SETTLING")
                ELSE /\ self' = Recalibrate(h, p)
                     /\ event' = Disabled(FALSE, "RECALIBRATING (n/30)")
           ELSE IF bl
           THEN /\ self' = Blinking(h)
                /\ event' = BlinkingEvent(h)
           ELSE IF Within(h.last_blink_time, blink_recovery_ms)
           THEN /\ self' = h
                /\ event' = Disabled(FALSE, "BLINK_RECOVERY")
           ELSE IF ~HasBaseline(h.baseline_y)
           THEN /\ self' = EstablishBaseline(h, p)
                /\ event' = Disabled(FALSE, "None")
           ELSE IF IsStabilizing(h.baseline_stable_time)
           THEN /\ self' = h
                /\ event' = Disabled(TRUE, "BASELINE_STABILIZING")
           ELSE /\ self' = DetectGaze(h, p)
                /\ event' = DetectGazeEvent(h, self')
        /\ Record(p, hm, bl, dt)

Collecting == self.recalibrating \/ ~HasBaseline(self.baseline_y)

\* pupil_relative reaches the detector's state or a modelled key of the event
\* on a tick with the flags hm and bl that comes dt ms after the previous
\* one.  update returns before reading it on a head_moving, settling, blink
\* or blink-recovery tick; on a stabilizing tick it reads it only for the
\* 'offset' key (line 214), which the event record leaves out.
ReadsPosition(hm, bl, dt) ==
    LET h == HeadStopped(Tick(self, dt))
    IN  /\ ~hm
        /\ IF h.recalibrating THEN ~IsSettling(h)
           ELSE /\ ~bl
                /\ ~Within(h.last_blink_time, blink_recovery_ms)
                /\ HasBaseline(h.baseline_y) => ~IsStabilizing(h.baseline_stable_time)

\* A tick with the flags hm and bl, dt ms after the previous one, passes every
\* early return and runs the gaze logic of lines 218-327.
ReachesGazeLogic(hm, bl, dt) ==
    LET h == HeadStopped(Tick(self, dt))
    IN  /\ ~hm /\ ~bl
        /\ ~h.recalibrating
        /\ ~Within(h.last_blink_time, blink_recovery_ms)
        /\ HasBaseline(h.baseline_y)
        /\ ~IsStabilizing(h.baseline_stable_time)

\* The ticks explored: MaxGazeTicks ticks of any kind, counted from the first
\* one that reaches the gaze logic.
Budget(hm, bl, dt) ==
    /\ gaze_ticks < MaxGazeTicks
    /\ gaze_ticks' = IF ReachesGazeLogic(hm, bl, dt) \/ gaze_ticks > 0
                     THEN gaze_ticks + 1 ELSE 0

\* History of the positions that passed every early return.
Feed(p, hm, bl, dt) ==
    fed' = IF ReachesGazeLogic(hm, bl, dt) THEN Append(fed, p) ELSE fed

\* The positions the caller may feed in the current state; one position
\* stands for all on a tick that does not read it.
InputPositions(hm, bl, dt) ==
    IF ~ReadsPosition(hm, bl, dt) THEN RestPositions
    ELSE IF ~Collecting THEN Positions
    ELSE IF off_centre < MaxOffCentre THEN CalibPositions
    ELSE RestPositions

Next ==
    \E hm \in BOOLEAN, bl \in BOOLEAN, dt \in Dts : \E p \in InputPositions(hm, bl, dt) :
        /\ Update(p, hm, bl, dt)
        /\ Budget(hm, bl, dt)
        /\ Feed(p, hm, bl, dt)
        /\ UNCHANGED <<morse_vars, sequence_vars, dispatch_vars, pipeline_vars, reset_vars, disturbed>>
        /\ off_centre' = IF Collecting /\ p \notin RestPositions THEN off_centre + 1 ELSE off_centre

Spec == Init /\ [][Next]_vars

\* ------------------------------------------------------- reading movements
\* The detector fed with a steady head and open eyes: the resting position
\* until the gaze logic runs, then MaxReadingTicks jumpy positions.
NextReading ==
    \E dt \in ReadingDts :
        \E p \in (IF ReachesGazeLogic(FALSE, FALSE, dt) THEN ReadingPositions
                  ELSE RestPositions) :
            /\ Update(p, FALSE, FALSE, dt)
            /\ Feed(p, FALSE, FALSE, dt)
            /\ gaze_ticks < MaxReadingTicks
            /\ gaze_ticks' = IF ReachesGazeLogic(FALSE, FALSE, dt)
                             THEN gaze_ticks + 1 ELSE gaze_ticks
            /\ off_centre' = off_centre
            /\ UNCHANGED <<morse_vars, sequence_vars, dispatch_vars, pipeline_vars, reset_vars, disturbed>>

SpecReading == Init /\ [][NextReading]_vars

\* ------------------------------------------------------------ settling down
\* The detector fed for ever: quiet ticks (head still, eyes open, the user
\* at the resting position) at any time, and MaxDisturbed ticks with head
\* motion or a blink among them.  Time advances on every tick.
QuietTick(dt) ==
    \E p \in RestPositions :
        /\ Update(p, FALSE, FALSE, dt)
        /\ disturbed' = disturbed

DisturbedTick(dt) ==
    /\ disturbed < MaxDisturbed
    /\ \E hm, bl \in BOOLEAN, p \in RestPositions :
           /\ hm \/ bl
           /\ Update(p, hm, bl, dt)
    /\ disturbed' = disturbed + 1

NextSettle ==
    /\ \E dt \in SettleDts : QuietTick(dt) \/ DisturbedTick(dt)
    /\ UNCHANGED <<gaze_ticks, off_centre, fed>>
    /\ UNCHANGED <<morse_vars, sequence_vars, dispatch_vars, pipeline_vars, reset_vars>>

\* Ticks keep arriving: the caller calls update once per camera frame.
SpecSettle == Init /\ [][NextSettle]_vars /\ WF_vars(NextSettle)

\* -------------------------------------------------------------------- reset
\* GazeDetector.reset (lines 57-70): the attributes it assigns.  It assigns
\* neither recalibrating, head_was_moving, head_settled_time nor
\* recalibration_frames.
Reset(s) ==
    [s EXCEPT !.baseline_y = NoBaseline,
              !.samples = EmptySamples,
              !.last_blink_time = blink_recovery_ms,
              !.baseline_stable_time = baseline_stable_ms,
              !.current_gaze_state = "NONE",
              !.gaze_already_fired = FALSE,
              !.gaze_start_time = AgeCap,
              !.is_continuous_gaze = FALSE,
              !.recent_positions = <<>>]

\* The instance s0 after update(p, hm, bl), called dt ms after the previous
\* call: the branches of Update, as a function.
UpdatedDetector(s0, p, hm, bl, dt) ==
    LET h == HeadStopped(Tick(s0, dt))
    IN  IF hm THEN HeadMoving(Tick(s0, dt))
        ELSE IF h.recalibrating
        THEN (IF IsSettling(h) THEN h ELSE Recalibrate(h, p))
        ELSE IF bl THEN Blinking(h)
        ELSE IF Within(h.last_blink_time, blink_recovery_ms) THEN h
        ELSE IF ~HasBaseline(h.baseline_y) THEN EstablishBaseline(h, p)
        ELSE IF IsStabilizing(h.baseline_stable_time) THEN h
        ELSE DetectGaze(h, p)

\* The dict that call returns.
UpdateEvent(s0, p, hm, bl, dt) ==
    LET h == HeadStopped(Tick(s0, dt))
    IN  IF hm THEN Disabled(FALSE, "RECALIBRATING")
        ELSE IF h.recalibrating
        THEN (IF IsSettling(h) THEN Disabled(FALSE, "SETTLING")
              ELSE Disabled(FALSE, "RECALIBRATING (n/30)"))
        ELSE IF bl THEN BlinkingEvent(h)
        ELSE IF Within(h.last_blink_time, blink_recovery_ms)
        THEN Disabled(FALSE, "BLINK_RECOVERY")
        ELSE IF ~HasBaseline(h.baseline_y) THEN Disabled(FALSE, "None")
        ELSE IF IsStabilizing(h.baseline_stable_time)
        THEN Disabled(TRUE, "BASELINE_STABILIZING")
        ELSE DetectGazeEvent(h, DetectGaze(h, p))

\* reset() is called; a new GazeDetector is constructed beside it.
ResetCall ==
    /\ self' = Reset(self)
    /\ twin' = [on |-> TRUE, self |-> Constructed, event |-> Disabled(FALSE, "NO_CALL")]
    /\ event' = Disabled(FALSE, "NO_CALL")
    /\ fires' = 0
    /\ entered' = AgeCap
    /\ established' = baseline_stable_ms
    /\ nb_count' = 0 /\ nb_sum' = 0 /\ after_n' = FALSE
    /\ UNCHANGED <<inp, blink_tick, head_ever, disturbed, stopped>>

\* The detector constructed at the reset is called with the arguments of the
\* tick.
TwinTick(dt) ==
    twin' = IF twin.on
            THEN [on |-> TRUE,
                  self |-> UpdatedDetector(twin.self, inp'.pupil_relative,
                                           inp'.head_moving, inp'.is_blinking, dt),
                  event |-> UpdateEvent(twin.self, inp'.pupil_relative,
                                        inp'.head_moving, inp'.is_blinking, dt)]
            ELSE twin

\* The ticks of the settling detector, with a reset at any time.
NextReset ==
    /\ \/ \E dt \in SettleDts : (QuietTick(dt) \/ DisturbedTick(dt)) /\ TwinTick(dt)
       \/ ResetCall
    /\ UNCHANGED <<gaze_ticks, off_centre, fed>>
    /\ UNCHANGED <<morse_vars, sequence_vars, dispatch_vars, pipeline_vars>>

SpecReset == Init /\ [][NextReset]_vars

\* ------------------------------------------------------- MorseInputHandler
\* The Morse-to-character table (MORSE_DICT); "" stands for no entry.
MorseDict(m) ==
    CASE m = <<".", "-">> -> "A"
      [] m = <<"-", ".", ".", ".">> -> "B"
      [] m = <<"-", ".", "-", ".">> -> "C"
      [] m = <<"-", ".", ".">> -> "D"
      [] m = <<".">> -> "E"
      [] m = <<".", ".", "-", ".">> -> "F"
      [] m = <<"-", "-", ".">> -> "G"
      [] m = <<".", ".", ".", ".">> -> "H"
      [] m = <<".", ".">> -> "I"
      [] m = <<".", "-", "-", "-">> -> "J"
      [] m = <<"-", ".", "-">> -> "K"
      [] m = <<".", "-", ".", ".">> -> "L"
      [] m = <<"-", "-">> -> "M"
      [] m = <<"-", ".">> -> "N"
      [] m = <<"-", "-", "-">> -> "O"
      [] m = <<".", "-", "-", ".">> -> "P"
      [] m = <<"-", "-", ".", "-">> -> "Q"
      [] m = <<".", "-", ".">> -> "R"
      [] m = <<".", ".", ".">> -> "S"
      [] m = <<"-">> -> "T"
      [] m = <<".", ".", "-">> -> "U"
      [] m = <<".", ".", ".", "-">> -> "V"
      [] m = <<".", "-", "-">> -> "W"
      [] m = <<"-", ".", ".", "-">> -> "X"
      [] m = <<"-", ".", "-", "-">> -> "Y"
      [] m = <<"-", "-", ".", ".">> -> "Z"
      [] m = <<"-", "-", "-", "-", "-">> -> "0"
      [] m = <<".", "-", "-", "-", "-">> -> "1"
      [] m = <<".", ".", "-", "-", "-">> -> "2"
      [] m = <<".", ".", ".", "-", "-">> -> "3"
      [] m = <<".", ".", ".", ".", "-">> -> "4"
      [] m = <<".", ".", ".", ".", ".">> -> "5"
      [] m = <<"-", ".", ".", ".", ".">> -> "6"
      [] m = <<"-", "-", ".", ".", ".">> -> "7"
      [] m = <<"-", "-", "-", ".", ".">> -> "8"
      [] m = <<"-", "-", "-", "-", ".">> -> "9"
      [] OTHER -> ""

\* The command table (MORSE_COMMANDS): six dots clear everything.
MorseCommands(m) ==
    IF m = <<".", ".", ".", ".", ".", ".">> THEN "CLEAR_ALL" ELSE ""

\* q[:-1]
ButLast(q) == SubSeq(q, 1, Len(q) - 1)

\* q.endswith(c)
EndsWith(q, c) == Len(q) > 0 /\ q[Len(q)] = c

\* now_ms - stamp, dt ms later; None stays None.
AgedStamp(t, dt, cap) == IF t = NoTime THEN NoTime ELSE Aged(t, dt, cap)

\* The stamps of the handler dt ms later.  hold_start_time is only compared
\* with the two hold times and neutral_hold_start with neutral_hold_time and
\* the submission delay.
MorseTick(h, dt) ==
    [h EXCEPT !.hold_start_time =
                  AgedStamp(@, dt, IF up_hold_time > down_hold_time
                                   THEN up_hold_time ELSE down_hold_time),
              !.neutral_hold_start = AgedStamp(@, dt, submit_hold_ms)]

\* (mutant) an unknown sequence stays in the buffer.
CompleteCurrentMorse_KeepsUnknown(h) ==
    IF h.current_morse = <<>> THEN h
    ELSE IF MorseDict(h.current_morse) # ""
    THEN [h EXCEPT !.current_text = Append(@, MorseDict(h.current_morse)),
                   !.current_morse = <<>>]
    ELSE IF MorseCommands(h.current_morse) = "CLEAR_ALL"
    THEN [h EXCEPT !.current_morse = <<>>, !.current_text = <<>>]
    ELSE h

\* (mutant) the clear-all command empties the buffer only.
CompleteCurrentMorse_KeepsText(h) ==
    IF h.current_morse = <<>> THEN h
    ELSE IF MorseDict(h.current_morse) # ""
    THEN [h EXCEPT !.current_text = Append(@, MorseDict(h.current_morse)),
                   !.current_morse = <<>>]
    ELSE [h EXCEPT !.current_morse = <<>>]

\* Lines 305-332 (with _execute_morse_command and _clear_all).
CompleteCurrentMorse(h) ==
    IF h.current_morse = <<>> THEN h
    ELSE IF MorseDict(h.current_morse) # ""
    THEN [h EXCEPT !.current_text = Append(@, MorseDict(h.current_morse)),
                   !.current_morse = <<>>]
    ELSE IF MorseCommands(h.current_morse) = "CLEAR_ALL"
    THEN [h EXCEPT !.current_morse = <<>>, !.current_text = <<>>]
    ELSE [h EXCEPT !.current_morse = <<>>]

\* (mutant) the space is added without completing the buffer.
AddSpace_KeepsBuffer(h) ==
    IF h.current_text # <<>> /\ ~EndsWith(h.current_text, " ")
    THEN [h EXCEPT !.current_text = Append(@, " ")]
    ELSE h

\* Lines 263-269.
AddSpace(h) ==
    LET c == CompleteCurrentMorse(h)
    IN  IF c.current_text # <<>> /\ ~EndsWith(c.current_text, " ")
        THEN [c EXCEPT !.current_text = Append(@, " ")]
        ELSE c

\* Lines 280-287.
Backspace(h) ==
    IF h.current_morse # <<>> THEN [h EXCEPT !.current_morse = ButLast(@)]
    ELSE IF h.current_text # <<>> THEN [h EXCEPT !.current_text = ButLast(@)]
    ELSE h

\* (mutant) a change of direction keeps the pending symbol.
HoldTiming_KeepsMarker(h, d) ==
    IF d = h.hold_direction THEN h
    ELSE IF d # "NONE"
    THEN [h EXCEPT !.hold_start_time = 0, !.hold_direction = d,
                   !.hold_executed = FALSE]
    ELSE [h EXCEPT !.hold_start_time = NoTime, !.hold_direction = "NONE",
                   !.hold_executed = FALSE]

\* Lines 101-113: the hold timing when the event reports direction d.
HoldTiming(h, d) ==
    IF d = h.hold_direction THEN h
    ELSE IF d # "NONE"
    THEN [h EXCEPT !.hold_start_time = 0, !.hold_direction = d,
                   !.hold_executed = FALSE, !.pending_hold_symbol = "NONE"]
    ELSE [h EXCEPT !.hold_start_time = NoTime, !.hold_direction = "NONE",
                   !.hold_executed = FALSE, !.pending_hold_symbol = "NONE"]

\* (mutant) the two symbols are exchanged.
MorseSymbol_Swapped(d) == IF d = "UP" THEN "-" ELSE "."

\* Lines 121-124 and 162-166: the symbol of a direction.
MorseSymbol(d) == IF d = "UP" THEN "." ELSE "-"

\* Lines 116-124 with _process_gaze_change (lines 159-167).
ProcessGazeChange(h, g) ==
    IF g.gaze_detected /\ g.direction # "NONE"
    THEN [h EXCEPT !.current_morse = Append(@, MorseSymbol(g.direction)),
                   !.pending_hold_symbol = MorseSymbol(g.direction)]
    ELSE h

\* Lines 127-140: the hold action that is due, if any.
HoldDue(h) ==
    IF h.hold_start_time # NoTime /\ ~h.hold_executed
    THEN IF h.hold_direction = "UP" /\ h.hold_start_time >= up_hold_time THEN "UP"
         ELSE IF h.hold_direction = "DOWN" /\ h.hold_start_time >= down_hold_time
         THEN "DOWN"
         ELSE "NONE"
    ELSE "NONE"

\* (mutant) the pending symbol is left in the buffer.
Retract_Never(h, sym) == h

\* Lines 132-133 and 142-143.
Retract(h, sym) ==
    IF h.pending_hold_symbol = sym /\ EndsWith(h.current_morse, sym)
    THEN [h EXCEPT !.current_morse = ButLast(@)]
    ELSE h

\* (mutant) the hold is not marked as executed.
UpHold_Unmarked(h) ==
    [AddSpace(Retract(h, ".")) EXCEPT !.pending_hold_symbol = "NONE"]

\* Lines 131-137.
UpHold(h) ==
    [AddSpace(Retract(h, ".")) EXCEPT !.hold_executed = TRUE,
                                      !.pending_hold_symbol = "NONE"]

\* (mutant) a Down hold always deletes a character.
DownHold_AlwaysBackspace(h) ==
    [Backspace(Retract(h, "-")) EXCEPT !.hold_executed = TRUE,
                                       !.pending_hold_symbol = "NONE"]

\* Lines 141-157.
DownHold(h) ==
    LET r == Retract(h, "-")
    IN  [(IF r.current_morse # <<>>
          THEN [r EXCEPT !.current_morse = <<>>]
          ELSE Backspace(r))
         EXCEPT !.hold_executed = TRUE, !.pending_hold_symbol = "NONE"]

\* Lines 96-157: _update_gaze_state.
UpdateGazeState(h, g) ==
    LET h1 == ProcessGazeChange(HoldTiming(h, g.direction), g)
    IN  IF HoldDue(h1) = "UP" THEN UpHold(h1)
        ELSE IF HoldDue(h1) = "DOWN" THEN DownHold(h1)
        ELSE h1

\* (mutant) a letter is completed as soon as the gaze is neutral.
LetterDue_AtOnce(h) == ~h.letter_completed /\ h.current_morse # <<>>

\* Lines 195-196.
LetterDue(h) ==
    /\ h.neutral_hold_start >= neutral_hold_time
    /\ ~h.letter_completed
    /\ h.current_morse # <<>>

\* (mutant) the text is submitted at the letter-completion delay.
SubmitDue_Early(h) == h.neutral_hold_start >= neutral_hold_time

\* Line 202.
SubmitDue(h) == h.neutral_hold_start >= submit_hold_ms

\* Lines 195-199.
CompleteLetter(h) ==
    IF LetterDue(h)
    THEN [CompleteCurrentMorse(h) EXCEPT !.letter_completed = TRUE]
    ELSE h

\* (mutant) the submitted text stays in current_text.
SubmitTextAndEnter_KeepsText(h) == CompleteCurrentMorse(h)

\* Lines 371-402, state: _submit_text_and_enter.
SubmitTextAndEnter(h) == [CompleteCurrentMorse(h) EXCEPT !.current_text = <<>>]

\* Lines 374-378 and 402: the text _submit_text_and_enter returns and gives
\* to the callback.
SubmittedText(h) == CompleteCurrentMorse(h).current_text

\* Lines 169-210, state: _check_neutral_hold.
CheckNeutralHold(h) ==
    IF h.neutral_hold_start = NoTime
    THEN [h EXCEPT !.neutral_hold_start = 0, !.letter_completed = FALSE]
    ELSE IF SubmitDue(h)
    THEN [SubmitTextAndEnter(CompleteLetter(h))
          EXCEPT !.neutral_hold_start = NoTime, !.letter_completed = FALSE]
    ELSE CompleteLetter(h)

\* Lines 169-210, the value returned.
CheckNeutralHoldResult(h) ==
    IF h.neutral_hold_start # NoTime /\ SubmitDue(h)
    THEN [text_submitted |-> TRUE,
          submitted_text |-> SubmittedText(CompleteLetter(h))]
    ELSE NoResult

\* Lines 396-398: the calls of on_text_submitted.
Callbacks(h) ==
    IF h.neutral_hold_start # NoTime /\ SubmitDue(h)
    THEN <<SubmittedText(CompleteLetter(h))>>
    ELSE <<>>

\* What a call on the handler h (stamps aged) with the event g executes: the
\* hold action, and the buffers given to morse_dict.get (line 309), in order.
HoldLookups(h, g) ==
    LET h1 == ProcessGazeChange(HoldTiming(h, g.direction), g)
    IN  IF HoldDue(h1) = "UP" /\ Retract(h1, ".").current_morse # <<>>
        THEN <<Retract(h1, ".").current_morse>>
        ELSE <<>>

NeutralLookups(u) ==
    IF u.neutral_hold_start = NoTime THEN <<>>
    ELSE (IF LetterDue(u) THEN <<u.current_morse>> ELSE <<>>)
         \o (IF SubmitDue(u) /\ CompleteLetter(u).current_morse # <<>>
             THEN <<CompleteLetter(u).current_morse>> ELSE <<>>)

\* (mutant) the pause leaves the hold timers running.
Pause_KeepsTimers(h) == h

\* Lines 66-71: head_moving pauses the timers and keeps the buffers.
Pause(h) ==
    [h EXCEPT !.hold_start_time = NoTime,
              !.hold_direction = "NONE",
              !.hold_executed = FALSE,
              !.neutral_hold_start = NoTime]

\* History variables of a call with the event g and head_moving = hm, dt ms
\* after the previous one.
MorseRecord(g, hm, dt) ==
    LET h == MorseTick(handler, dt)
        processed == ~hm /\ g.baseline_established
        neutral == ~hm /\ g.direction = "NONE"
        due == IF processed
               THEN HoldDue(ProcessGazeChange(HoldTiming(h, g.direction), g))
               ELSE "NONE"
        hl == IF processed THEN HoldLookups(h, g) ELSE <<>>
        nl == IF processed /\ g.direction = "NONE"
              THEN NeutralLookups(UpdateGazeState(h, g)) ELSE <<>>
    IN  /\ gaze_result' = [gaze_detected |-> g.gaze_detected, direction |-> g.direction,
                           baseline_established |-> g.baseline_established,
                           head_moving |-> hm]
        /\ run_dir' = IF hm THEN "NONE" ELSE g.direction
        /\ neutral_run' = IF ~neutral THEN NoTime
                          ELSE IF neutral_run = NoTime THEN 0
                          ELSE Aged(neutral_run, dt, submit_hold_ms)
        /\ marks' = [hold |-> due,
                     holds |-> IF run_dir' = "NONE" THEN 0
                               ELSE (IF run_dir' = run_dir THEN marks.holds ELSE 0)
                                    + (IF due # "NONE" THEN 1 ELSE 0),
                     looked |-> hl \o nl,
                     run_lookups |-> IF ~neutral THEN 0
                                     ELSE (IF neutral_run = NoTime THEN 0
                                           ELSE marks.run_lookups) + Len(nl),
                     run_age |-> IF run_dir' = "NONE" THEN NoTime
                                 ELSE IF run_dir' # run_dir THEN 0
                                 ELSE Aged(marks.run_age, dt, up_hold_time),
                     run_fired |-> IF run_dir' = "NONE" THEN FALSE
                                   ELSE IF run_dir' # run_dir THEN g.gaze_detected
                                   ELSE marks.run_fired,
                     neutral_age |-> IF processed /\ g.direction = "NONE"
                                     THEN h.neutral_hold_start ELSE NoTime]

\* The handler h0 after update(g, hm), called dt milliseconds after the
\* previous call (lines 61-94).
UpdatedHandler(h0, g, hm, dt) ==
    LET h == MorseTick(h0, dt)
        u == UpdateGazeState(h, g)
    IN  IF hm THEN Pause(h)
        ELSE IF ~g.baseline_established THEN h
        ELSE IF g.direction = "NONE" THEN CheckNeutralHold(u)
        ELSE [u EXCEPT !.neutral_hold_start = NoTime, !.letter_completed = FALSE]

\* What that call returns.
UpdateResult(h0, g, hm, dt) ==
    IF ~hm /\ g.baseline_established /\ g.direction = "NONE"
    THEN CheckNeutralHoldResult(UpdateGazeState(MorseTick(h0, dt), g))
    ELSE NoResult

\* The texts it calls on_text_submitted with.
UpdateCallbacks(h0, g, hm, dt) ==
    IF ~hm /\ g.baseline_established /\ g.direction = "NONE"
    THEN Callbacks(UpdateGazeState(MorseTick(h0, dt), g))
    ELSE <<>>

\* MorseInputHandler.update(gaze_result, head_moving), called dt milliseconds
\* after the previous call, with a callback registered.
MorseUpdate(g, hm, dt) ==
    /\ handler' = UpdatedHandler(handler, g, hm, dt)
    /\ result' = UpdateResult(handler, g, hm, dt)
    /\ callback' = UpdateCallbacks(handler, g, hm, dt)
    /\ MorseRecord(g, hm, dt)

\* The events GazeDetector.update hands to the handler.  Only the keys the
\* handler reads are kept: gaze_detected, direction, baseline_established.
GazeResult(detected, dir, ready) ==
    [gaze_detected |-> detected, direction |-> dir, baseline_established |-> ready]

\* A tick with head_moving: the detector answers RECALIBRATING and drops its
\* gaze state (gaze_detector.py lines 110-126).
HeadMotionTick(dt) ==
    /\ MorseUpdate(GazeResult(FALSE, "NONE", FALSE), TRUE, dt)
    /\ det_state' = "NONE"
    /\ symbols' = symbols

\* A tick the detector answers without a baseline_established: calibration,
\* settling, recalibration, blink recovery.  Its gaze state is kept.  None of
\* them follows a tick that reported a direction: calibration and
\* recalibration start without a baseline or with head_moving, and a blink
\* recovery follows a blink tick.
NotReadyTick(dt) ==
    /\ run_dir = "NONE"
    /\ MorseUpdate(GazeResult(FALSE, "NONE", FALSE), FALSE, dt)
    /\ UNCHANGED <<det_state, symbols>>

\* A tick the detector suppresses with a baseline: a blink, the settle window,
\* a reading movement.  Its gaze state is kept.
SuppressedTick(dt) ==
    /\ MorseUpdate(GazeResult(FALSE, "NONE", TRUE), FALSE, dt)
    /\ UNCHANGED <<det_state, symbols>>

\* A tick that runs the gaze logic and finds the physical state q:
\* gaze_detected on the tick that enters Up or Down, the direction on every
\* tick (gaze_detector.py lines 239-327).
GazeTick(q, dt) ==
    /\ MorseUpdate(GazeResult(q # "NONE" /\ q # det_state, q, TRUE), FALSE, dt)
    /\ det_state' = q
    /\ symbols' = IF q # "NONE" /\ q # det_state THEN symbols + 1 ELSE symbols

\* The detector enters the state q on the next gaze tick: gaze_detected.
Fires(q) == q # "NONE" /\ q # det_state

NextMorse ==
    /\ \E dt \in MorseDts :
           \/ HeadMotionTick(dt)
           \/ NotReadyTick(dt)
           \/ SuppressedTick(dt)
           \/ \E q \in {"NONE", "UP", "DOWN"} :
                  /\ Fires(q) => symbols < MaxSymbols
                  /\ GazeTick(q, dt)
    /\ UNCHANGED <<detector_vars, sequence_vars, dispatch_vars, pipeline_vars, reset_vars>>

SpecMorse == Init /\ [][NextMorse]_vars

\* ------------------------------------------------------------------- holds
\* update(event, head_moving = True) with any event: the handler is a public
\* entry point and reads nothing of the event on that path.  The detector has
\* dropped its gaze state, as on every tick with head motion.
PausedTick(g, dt) ==
    /\ MorseUpdate(g, TRUE, dt)
    /\ det_state' = "NONE"
    /\ symbols' = symbols

\* The handler fed with gazes that are held, interrupted by head motion and
\* by suppressed ticks, HoldDts apart; MaxHeld symbols are entered.
NextHold ==
    /\ \E dt \in HoldDts :
           \/ \E detected, ready \in BOOLEAN, dir \in {"NONE", "UP", "DOWN"} :
                  PausedTick(GazeResult(detected, dir, ready), dt)
           \/ NotReadyTick(dt)
           \/ SuppressedTick(dt)
           \/ \E q \in {"NONE", "UP", "DOWN"} :
                  /\ Fires(q) => symbols < MaxHeld
                  /\ GazeTick(q, dt)
    /\ UNCHANGED <<detector_vars, sequence_vars, dispatch_vars, pipeline_vars, reset_vars>>

SpecHold == Init /\ [][NextHold]_vars

\* ------------------------------------------------------------------ typing
\* The handler fed with short gazes only: every tick that reports a direction
\* enters it, so no gaze is held, and the ticks are TypingDts apart, so two
\* neutral ticks in a row complete the buffer.  MaxTyped symbols are typed.
NextTyping ==
    /\ \E dt \in TypingDts : \E q \in {"NONE", "UP", "DOWN"} :
           /\ q = "NONE" \/ Fires(q)
           /\ Fires(q) => symbols < MaxTyped
           /\ GazeTick(q, dt)
    /\ UNCHANGED <<detector_vars, sequence_vars, dispatch_vars, pipeline_vars, reset_vars>>

SpecTyping == Init /\ [][NextTyping]_vars

\* --------------------------------------------------------------- sequences
\* The stamps of the manager dt ms later.
SequenceTick(m, dt) ==
    [m EXCEPT !.sequence_start_time = Aged(@, dt, sequence_timeout_ms + 1),
              !.prompt_start_time = Aged(@, dt, prompt_timeout + 1)]

\* The loop of lines 109-141 from the i-th registered pattern on: the first
\* pattern that the list equals or that the list is a strict prefix of
\* decides, and the loop returns there.
RECURSIVE MatchFrom(_, _, _)
MatchFrom(list, reg, i) ==
    IF i > Len(reg) THEN [kind |-> "invalid", name |-> ""]
    ELSE LET target == reg[i].pattern
         IN  IF Len(list) = Len(target) /\ list = target
             THEN [kind |-> "complete", name |-> reg[i].name]
             ELSE IF Len(list) < Len(target) /\ list = SubSeq(target, 1, Len(list))
             THEN [kind |-> "partial", name |-> ""]
             ELSE MatchFrom(list, reg, i + 1)

\* (mutant) a list that matches nothing is cleared, not restarted.
Restart_Empty(m, direction) ==
    [m EXCEPT !.sequence_pattern = <<>>, !.sequence_start_time = 0]

\* (mutant) a list that matches nothing is kept with the direction added.
Restart_KeepsList(m, direction) ==
    [m EXCEPT !.sequence_pattern = Append(@, direction), !.sequence_start_time = 0]

\* Lines 145-146.
Restart(m, direction) ==
    [m EXCEPT !.sequence_pattern = <<direction>>, !.sequence_start_time = 0]

\* (mutant) a continuing addition restarts the timer.
Continue_Restarts(m, direction) ==
    [m EXCEPT !.sequence_pattern = Append(@, direction), !.sequence_start_time = 0]

\* Line 104, when the list is kept (lines 130-141).
Continue(m, direction) ==
    [m EXCEPT !.sequence_pattern = Append(@, direction)]

\* (mutant) the list is kept after a completion.
Complete_KeepsList(m, direction) == Continue(m, direction)

\* Lines 119-120.
Complete(m, direction) == [m EXCEPT !.sequence_pattern = <<>>]

\* add_gaze (lines 86-155): the instance after the call.
AddGaze(m, reg, direction) ==
    IF m.sequence_pattern = <<>> THEN Restart(m, direction)
    ELSE LET found == MatchFrom(Append(m.sequence_pattern, direction), reg, 1)
         IN  IF found.kind = "complete" THEN Complete(m, direction)
             ELSE IF found.kind = "partial" THEN Continue(m, direction)
             ELSE Restart(m, direction)

\* add_gaze: the dict returned.
AddGazeResult(m, reg, direction) ==
    LET list == Append(m.sequence_pattern, direction)
        found == IF m.sequence_pattern = <<>> THEN [kind |-> "started", name |-> ""]
                 ELSE MatchFrom(list, reg, 1)
    IN  [NoSequenceResult EXCEPT
            !.is_none = FALSE,
            !.sequence_complete = (found.kind = "complete"),
            !.sequence_type = found.name,
            !.current_sequence = AddGaze(m, reg, direction).sequence_pattern,
            !.invalid_cleared = (found.kind = "invalid"),
            !.completed_sequence = IF found.kind = "complete" THEN list ELSE <<>>]

\* Lines 183-189.
PromptTimedOut(m, current_mode) ==
    current_mode = "PROMPT" /\ m.prompt_start_time > prompt_timeout

\* (mutant) the sequence times out at the timeout, not after it.
SequenceTimedOut_Early(m) ==
    m.sequence_pattern # <<>> /\ m.sequence_start_time >= sequence_timeout_ms

\* Lines 193-195.
SequenceTimedOut(m) ==
    m.sequence_pattern # <<>> /\ m.sequence_start_time > sequence_timeout_ms

\* check_timeouts (lines 70-82 with 183-200): a prompt timeout returns
\* before the sequence timeout is looked at.
CheckTimeouts(m, current_mode) ==
    IF PromptTimedOut(m, current_mode) THEN m
    ELSE IF SequenceTimedOut(m)
    THEN [m EXCEPT !.sequence_pattern = <<>>,
                   !.sequence_start_time = sequence_timeout_ms + 1]
    ELSE m

CheckTimeoutsResult(m, current_mode) ==
    IF PromptTimedOut(m, current_mode)
    THEN [NoSequenceResult EXCEPT !.is_none = FALSE, !.mode = "TAB", !.timeout = TRUE]
    ELSE IF SequenceTimedOut(m)
    THEN [NoSequenceResult EXCEPT !.is_none = FALSE, !.sequence_cleared = TRUE,
                                  !.timeout = TRUE]
    ELSE NoSequenceResult

\* Lines 161-164.
ClearSequence(m) ==
    [m EXCEPT !.sequence_pattern = <<>>,
              !.sequence_start_time = sequence_timeout_ms + 1]

\* The time since the first direction of the attempt that the list n holds
\* after a call, when it held o before and the call came dt ms after the
\* previous one.
Attempt(o, n, dt) ==
    IF n = <<>> THEN sequence_timeout_ms + 1
    ELSE IF Len(n) = 1 THEN 0
    ELSE Aged(attempt, dt, sequence_timeout_ms + 1)

SequenceCall(m, res, op, direction, current_mode, dt) ==
    /\ manager' = m
    /\ sequence_result' = res
    /\ call' = [op |-> op, direction |-> direction, mode |-> current_mode, dt |-> dt,
                before |-> manager.sequence_pattern]
    /\ attempt' = IF op = "add_gaze"
                  THEN Attempt(manager.sequence_pattern, m.sequence_pattern, dt)
                  ELSE IF m.sequence_pattern = <<>> THEN sequence_timeout_ms + 1
                  ELSE Aged(attempt, dt, sequence_timeout_ms + 1)
    /\ UNCHANGED sequences

\* add_gaze(direction), dt ms after the previous call on the manager.
AddGazeCall(direction, dt) ==
    LET m == SequenceTick(manager, dt)
    IN  SequenceCall(AddGaze(m, sequences, direction),
                     AddGazeResult(m, sequences, direction),
                     "add_gaze", direction, "", dt)

\* check_timeouts(current_mode).
CheckTimeoutsCall(current_mode, dt) ==
    LET m == SequenceTick(manager, dt)
    IN  SequenceCall(CheckTimeouts(m, current_mode),
                     CheckTimeoutsResult(m, current_mode),
                     "check_timeouts", "NONE", current_mode, dt)

\* clear_sequence().
ClearSequenceCall(dt) ==
    SequenceCall(ClearSequence(SequenceTick(manager, dt)), NoSequenceResult,
                 "clear_sequence", "NONE", "", dt)

\* handle_sequence_complete("mode_switch") (lines 41-44 and 166-173), which
\* the caller makes with the type that add_gaze has just completed: the
\* prompt starts.
ModeSwitchCall(dt) ==
    /\ sequence_result.sequence_complete
    /\ sequence_result.sequence_type = "mode_switch"
    /\ SequenceCall([SequenceTick(manager, dt) EXCEPT !.prompt_start_time = 0],
                    [NoSequenceResult EXCEPT !.is_none = FALSE, !.mode = "PROMPT"],
                    "handle_sequence_complete", "NONE", "", dt)

NextSequence ==
    /\ \E dt \in SeqDts :
           \/ \E direction \in {"UP", "DOWN"} : AddGazeCall(direction, dt)
           \/ \E current_mode \in Modes : CheckTimeoutsCall(current_mode, dt)
           \/ ClearSequenceCall(dt)
           \/ ModeSwitchCall(dt)
    /\ UNCHANGED <<detector_vars, morse_vars, dispatch_vars, pipeline_vars, reset_vars>>

SpecSequence == Init /\ [][NextSequence]_vars

\* The same calls on a manager whose registry shares prefixes.
SpecRegistry == InitRegistry /\ [][NextSequence]_vars

\* ---------------------------------------------------------------- dispatch
\* A tick whose event goes to both consumers: the detector finds the
\* physical state q (a short gaze, as in typing) and returns the event.
ArriveTick(q, dt) ==
    /\ tick.morse /\ tick.sequence
    /\ q = "NONE" \/ Fires(q)
    /\ Fires(q) => symbols < MaxDispatched
    /\ LET g == GazeResult(Fires(q), q, TRUE)
           m == SequenceTick(manager, dt)
       IN  /\ tick' = [g |-> g, dt |-> dt, morse |-> FALSE, sequence |-> FALSE,
                       first |-> "none"]
           /\ expected' =
                  [handler |-> UpdatedHandler(handler, g, FALSE, dt),
                   result |-> UpdateResult(handler, g, FALSE, dt),
                   callback |-> UpdateCallbacks(handler, g, FALSE, dt),
                   manager |-> IF g.gaze_detected THEN AddGaze(m, sequences, q) ELSE m,
                   sequence_result |-> IF g.gaze_detected
                                       THEN AddGazeResult(m, sequences, q)
                                       ELSE sequence_result]
    /\ det_state' = q
    /\ symbols' = IF Fires(q) THEN symbols + 1 ELSE symbols
    /\ UNCHANGED <<handler, result, callback, gaze_result, run_dir, neutral_run, marks>>
    /\ UNCHANGED sequence_vars

\* (mutant) the handler takes gaze_detected out of the event it was handed.
DispatchMorse_ConsumesEvent ==
    /\ ~tick.morse
    /\ MorseUpdate(tick.g, FALSE, tick.dt)
    /\ tick' = [tick EXCEPT !.morse = TRUE, !.g.gaze_detected = FALSE,
                            !.first = IF @ = "none" THEN "morse" ELSE @]
    /\ UNCHANGED <<det_state, symbols, expected, sequence_vars>>

\* The event is handed to MorseInputHandler.update, which reads it with
\* .get and writes attributes of the handler only.
DispatchMorse ==
    /\ ~tick.morse
    /\ MorseUpdate(tick.g, FALSE, tick.dt)
    /\ tick' = [tick EXCEPT !.morse = TRUE,
                            !.first = IF @ = "none" THEN "morse" ELSE @]
    /\ UNCHANGED <<det_state, symbols, expected, sequence_vars>>

\* A fired event's direction is handed to SequenceManager.add_gaze, which
\* writes attributes of the manager only; on other ticks the manager is not
\* called and its stamps age.
DispatchSequence ==
    /\ ~tick.sequence
    /\ IF tick.g.gaze_detected
       THEN AddGazeCall(tick.g.direction, tick.dt)
       ELSE /\ manager' = SequenceTick(manager, tick.dt)
            /\ attempt' = IF manager.sequence_pattern = <<>> THEN attempt
                          ELSE Aged(attempt, tick.dt, sequence_timeout_ms + 1)
            /\ UNCHANGED <<sequences, sequence_result, call>>
    /\ tick' = [tick EXCEPT !.sequence = TRUE,
                            !.first = IF @ = "none" THEN "sequence" ELSE @]
    /\ UNCHANGED <<expected, morse_vars>>

NextDispatch ==
    /\ \/ \E dt \in DispatchDts : \E q \in {"NONE", "UP", "DOWN"} : ArriveTick(q, dt)
       \/ DispatchMorse
       \/ DispatchSequence
    /\ UNCHANGED <<detector_vars, pipeline_vars, reset_vars>>

SpecDispatch == Init /\ [][NextDispatch]_vars

\* ---------------------------------------------------------------- pipeline
\* One camera frame with a steady head: GazeDetector.update is called with
\* the position and the blink flag, and the dict it returns is handed to
\* MorseInputHandler.update.
PipelineTick(p, bl, dt) ==
    /\ Update(p, FALSE, bl, dt)
    /\ Feed(p, FALSE, bl, dt)
    /\ MorseUpdate(GazeResult(event'.gaze_detected, event'.direction,
                              event'.baseline_established), FALSE, dt)
    /\ det_state' = self'.current_gaze_state
    /\ symbols' = IF event'.gaze_detected THEN symbols + 1 ELSE symbols
    /\ held' = (IF event'.gaze_detected THEN 0 ELSE held)
                + (IF marks'.hold # "NONE" THEN 1 ELSE 0)

\* The user looks at the resting position with open eyes until the gaze
\* logic runs; MaxPipelineTicks ticks with any position and blinks follow
\* (one position stands for all on a tick that does not reach the gaze
\* logic).
NextPipeline ==
    /\ \E dt \in PipelineDts, bl \in BOOLEAN :
           \E p \in (IF ReachesGazeLogic(FALSE, bl, dt)
                     THEN PipelinePositions ELSE RestPositions) :
               /\ bl => gaze_ticks > 0
               /\ gaze_ticks < MaxPipelineTicks
               /\ gaze_ticks' = IF gaze_ticks > 0 \/ ReachesGazeLogic(FALSE, bl, dt)
                                THEN gaze_ticks + 1 ELSE 0
               /\ PipelineTick(p, bl, dt)
    /\ UNCHANGED <<off_centre, disturbed, sequence_vars, dispatch_vars, reset_vars>>

SpecPipeline == Init /\ [][NextPipeline]_vars

\* ------------------------------------------------------------------ claims
Gazing == self.current_gaze_state # "NONE"

\* The latest tick ran the gaze logic of lines 239-327 (past every
\* suppression), from the instance state the action started in.
Unsuppressed ==
    /\ ~inp'.head_moving /\ ~inp'.is_blinking
    /\ ~self.recalibrating
    /\ HasBaseline(self.baseline_y)
    /\ self'.last_blink_time >= blink_recovery_ms
    /\ self'.baseline_stable_time >= baseline_stable_ms
    /\ ~IsReadingMovement(self'.recent_positions)

\* offset * den of the latest tick against the baseline it was called with
TickOffset == GazeOffset(self.baseline_y, inp'.pupil_relative)

\* C1 (fire-once): while the gaze state is Up or Down exactly one tick since
\* it was entered has reported gaze_detected, so an excursion that returns to
\* Neutral has fired exactly once however many ticks it spanned; a tick that
\* leaves the decoder Neutral never reports gaze_detected.
C1_FireOnce ==
    /\ Gazing => fires = 1
    /\ ~Gazing => ~event.gaze_detected

\* An excursion has just ended: the gaze logic changed the state to Neutral
\* (gaze_start_time was reset by the change) on the third tick or later.
C1_Witness ==
    /\ ~Gazing
    /\ event.disabled_reason = "None" /\ event.baseline_established
    /\ self.gaze_start_time = 0
    /\ gaze_ticks >= 3

\* C2 as stated: a direction is reported only with a baseline that is at
\* least baseline_stable_ms old, and every tick called inside the settle
\* window reports direction None with BASELINE_STABILIZING.
C2_Original ==
    /\ event.direction # "NONE" =>
           HasBaseline(self.baseline_y) /\ established >= baseline_stable_ms
    /\ (HasBaseline(self.baseline_y) /\ 0 < established /\ established < baseline_stable_ms) =>
           event.direction = "NONE" /\ event.disabled_reason = "BASELINE_STABILIZING"

\* C2 (amended): a direction is reported only with a baseline that is at
\* least baseline_stable_ms old; a tick called inside the settle window
\* reports direction None, with BASELINE_STABILIZING unless it is a blink
\* tick (BLINKING) or falls in the blink recovery (BLINK_RECOVERY).
C2_Stabilizing ==
    /\ event.direction # "NONE" =>
           HasBaseline(self.baseline_y) /\ established >= baseline_stable_ms
    /\ (HasBaseline(self.baseline_y) /\ 0 < established /\ established < baseline_stable_ms) =>
           /\ event.direction = "NONE"
           /\ event.disabled_reason =
                  IF inp.is_blinking THEN "BLINKING"
                  ELSE IF self.last_blink_time < blink_recovery_ms THEN "BLINK_RECOVERY"
                  ELSE "BASELINE_STABILIZING"

\* A tick inside the settle window of a baseline, answered with
\* BASELINE_STABILIZING.
C2_Witness ==
    /\ HasBaseline(self.baseline_y)
    /\ 0 < established /\ established < baseline_stable_ms
    /\ event.disabled_reason = "BASELINE_STABILIZING"

C4_Hysteresis ==
    [][Unsuppressed =>
         /\ (self.current_gaze_state = "UP"
               /\ 10 * TickOffset > 4 * threshold_up * self.baseline_y.den)
              => self'.current_gaze_state = "UP" /\ event'.direction = "UP"
         /\ (self.current_gaze_state = "UP"
               /\ 10 * TickOffset < 4 * threshold_up * self.baseline_y.den)
              => self'.current_gaze_state = "NONE" /\ event'.direction = "NONE"
         /\ (self.current_gaze_state = "DOWN"
               /\ 10 * TickOffset < -(4 * threshold_down * self.baseline_y.den))
              => self'.current_gaze_state = "DOWN" /\ event'.direction = "DOWN"
         /\ (self.current_gaze_state = "DOWN"
               /\ 10 * TickOffset > -(4 * threshold_down * self.baseline_y.den))
              => self'.current_gaze_state = "NONE" /\ event'.direction = "NONE"]_vars

\* A tick in the Up state with the offset between 40% and 100% of
\* threshold_up, after which the state is still Up.
C4_Witness ==
    /\ self.current_gaze_state = "UP"
    /\ event.direction = "UP" /\ ~event.gaze_detected
    /\ 10 * GazeOffset(self.baseline_y, inp.pupil_relative)
           > 4 * threshold_up * self.baseline_y.den
    /\ GazeOffset(self.baseline_y, inp.pupil_relative)
           <= threshold_up * self.baseline_y.den

\* C5 (continuous-flag timing): a tick that reports a direction reports
\* is_continuous_gaze exactly when hold_threshold_ms have passed since the
\* gaze state was entered; the tick that enters a direction reports a
\* duration of 0 and not continuous; a tick that returns to Neutral reports
\* not continuous.
C5_ContinuousTiming ==
    [][/\ event'.direction # "NONE" =>
              /\ event'.has_continuous
              /\ event'.is_continuous_gaze <=> entered' >= hold_threshold_ms
       /\ (self'.current_gaze_state # "NONE"
             /\ self'.current_gaze_state # self.current_gaze_state) =>
              /\ event'.direction = self'.current_gaze_state
              /\ event'.gaze_duration_ms = 0
              /\ ~event'.is_continuous_gaze
       /\ (Gazing /\ self'.current_gaze_state = "NONE") =>
              ~event'.is_continuous_gaze]_vars

\* A tick that reports a direction held for hold_threshold_ms or more, as
\* continuous.
C5_Witness ==
    /\ event.direction = "DOWN"
    /\ event.is_continuous_gaze
    /\ entered >= hold_threshold_ms

\* C6 as stated: after an event with is_continuous_gaze = true, every event
\* reports is_continuous_gaze = true as long as the gaze state is not Neutral.
C6_Original ==
    [][(event.is_continuous_gaze /\ self'.current_gaze_state # "NONE") =>
           event'.is_continuous_gaze]_vars

\* C6 (amended): an event reports is_continuous_gaze = true only from a
\* gazing state whose flag is set; from then on, as long as the gaze state
\* is not Neutral, the decoder's is_continuous_gaze flag stays true and every
\* event that reports a direction reports is_continuous_gaze = true (the
\* events of suppressed ticks carry no is_continuous_gaze).
C6_StaysContinuous ==
    [][/\ event'.is_continuous_gaze =>
              self'.is_continuous_gaze /\ self'.current_gaze_state # "NONE"
       /\ (Gazing /\ self.is_continuous_gaze /\ self'.current_gaze_state # "NONE") =>
              /\ self'.is_continuous_gaze
              /\ event'.direction # "NONE" => event'.is_continuous_gaze]_vars

\* A continuous Up or Down gaze interrupted by a blink: the flag is kept
\* while the blink event carries none.
C6_Witness ==
    /\ Gazing
    /\ self.is_continuous_gaze
    /\ event.disabled_reason = "BLINKING"
    /\ entered >= hold_threshold_ms

\* C7 as stated: with no head motion, at the tick that feeds the
\* baseline_frames-th non-blink sample the baseline is the mean of exactly
\* those samples, and every later event reports baseline_established.
C7_Original ==
    /\ (~head_ever /\ nb_count = baseline_frames /\ ~after_n) =>
           /\ HasBaseline(self.baseline_y)
           /\ self.baseline_y.num * baseline_frames = nb_sum * self.baseline_y.den
    /\ (~head_ever /\ after_n) => event.baseline_established

\* C8 as stated: after a tick with head_moving the baseline is absent, the
\* sample buffer is empty, the gaze state is Neutral and the decoder is
\* recalibrating.
C8_Original ==
    inp.head_moving =>
        /\ ~HasBaseline(self.baseline_y)
        /\ self.samples.len = 0
        /\ self.current_gaze_state = "NONE"
        /\ self.recalibrating

\* C9 as stated: the tick that ends a recalibration has collected
\* baseline_frames samples, the same number as the initial calibration, and
\* starts the settle window of the fresh baseline.
C9_Original ==
    [][(self.recalibrating /\ ~self'.recalibrating) =>
           /\ self'.baseline_y.den = baseline_frames
           /\ self'.baseline_stable_time = 0]_vars

\* C10 as stated: no event reports a direction or gaze_detected on a blink
\* tick or within blink_recovery_ms of the latest blink tick.
C10_Original ==
    (event.direction # "NONE" \/ event.gaze_detected) =>
        ~inp.is_blinking /\ blink_tick >= blink_recovery_ms

\* C11 as stated: every tick called with is_blinking = true reports direction
\* None and disabled_reason BLINKING.
C11_Original ==
    inp.is_blinking =>
        event.direction = "NONE" /\ event.disabled_reason = "BLINKING"

\* C11 (amended): every tick called with is_blinking = true reports direction
\* None and no gaze_detected; its disabled_reason is BLINKING unless
\* head_moving is true or the decoder is recalibrating, which update checks
\* first and answers RECALIBRATING or SETTLING.
C11_BlinkReason ==
    [][inp'.is_blinking =>
          /\ event'.direction = "NONE" /\ ~event'.gaze_detected
          /\ (~inp'.head_moving /\ ~self.recalibrating) =>
                 event'.disabled_reason = "BLINKING"
          /\ (inp'.head_moving \/ self.recalibrating) =>
                 event'.disabled_reason \in
                     {"RECALIBRATING", "SETTLING", "RECALIBRATING (n/30)"}]_vars

\* A blink tick in the middle of an Up or Down gaze, answered with BLINKING
\* and no direction.
C11_Witness ==
    /\ inp.is_blinking
    /\ Gazing
    /\ event.disabled_reason = "BLINKING" /\ event.direction = "NONE"

\* The recent-position buffer of the claim: the last recent_positions_maxlen
\* entries of f.
Window(f) ==
    SubSeq(f, IF Len(f) > recent_positions_maxlen
              THEN Len(f) - recent_positions_maxlen + 1 ELSE 1, Len(f))

\* Sum of |w[j+1] - w[j]| for j = i .. Len(w) - 1.
RECURSIVE TotalTravel(_, _)
TotalTravel(w, i) ==
    IF i >= Len(w) THEN 0 ELSE Abs(w[i + 1] - w[i]) + TotalTravel(w, i + 1)

\* The mean of |delta position| over w exceeds velocity_threshold.
TooFast(w) ==
    Len(w) >= 3 /\ TotalTravel(w, 1) > velocity_threshold * (Len(w) - 1)

\* C12 (reading-movement rejection): on a tick that passes the earlier
\* suppressions, when the mean of |delta position| over the last (at most
\* recent_positions_maxlen, at least 3) such positions, this tick's included,
\* exceeds velocity_threshold, the event reports direction None, no
\* gaze_detected and READING_MOVEMENT, whatever the offset; when it does not
\* exceed it, the event is not READING_MOVEMENT.
C12_ReadingRejected ==
    [][fed' # fed =>
          IF TooFast(Window(fed'))
          THEN /\ event'.direction = "NONE"
               /\ ~event'.gaze_detected
               /\ event'.disabled_reason = "READING_MOVEMENT"
          ELSE event'.disabled_reason # "READING_MOVEMENT"]_vars

\* A tick beyond the tenth, rejected as reading movement although its offset
\* is beyond the Down entry threshold, the positions older than the buffer
\* being slow enough to bring the mean over all of them under the threshold.
C12_Witness ==
    /\ event.disabled_reason = "READING_MOVEMENT"
    /\ Len(fed) > recent_positions_maxlen
    /\ ~TooFast(fed)
    /\ GazeOffset(self.baseline_y, inp.pupil_relative)
           < -(threshold_down * self.baseline_y.den)

\* ---- claims about MorseInputHandler
\* The latest call was processed: no head motion and a baseline established.
Processed == ~gaze_result.head_moving /\ gaze_result.baseline_established

IsPrefix(a, b) == Len(a) <= Len(b) /\ a = SubSeq(b, 1, Len(a))

\* C13 (symbol emission): a call with head_moving = false, a baseline
\* established and gaze_detected = true appends exactly one symbol to
\* current_morse, "." for Up and "-" for Down, and sets the pending-symbol
\* marker to it; a call with gaze_detected = false appends nothing (the
\* buffer stays, or loses symbols).
C13_SymbolEmission ==
    [][/\ (Processed' /\ gaze_result'.gaze_detected /\ gaze_result'.direction = "UP") =>
              /\ handler'.current_morse = Append(handler.current_morse, ".")
              /\ handler'.pending_hold_symbol = "."
       /\ (Processed' /\ gaze_result'.gaze_detected /\ gaze_result'.direction = "DOWN") =>
              /\ handler'.current_morse = Append(handler.current_morse, "-")
              /\ handler'.pending_hold_symbol = "-"
       /\ ~gaze_result'.gaze_detected =>
              IsPrefix(handler'.current_morse, handler.current_morse)]_vars

\* The third symbol of dot, dot, dash has just been appended by a Down event.
C13_Witness ==
    /\ Processed
    /\ gaze_result.gaze_detected /\ gaze_result.direction = "DOWN"
    /\ handler.current_morse = <<".", ".", "-">>
    /\ handler.pending_hold_symbol = "-"

\* The latest tick took a run of ticks with direction d and no head motion
\* past the hold time t.
HeldPast(d, t) ==
    /\ run_dir = d /\ run_dir' = d
    /\ marks.run_age < t /\ marks'.run_age >= t

\* current_text after the buffer m is completed: a letter of the table is
\* appended, six dots clear the text, anything else leaves it.
TextWith(text, m) ==
    IF m = <<>> THEN text
    ELSE IF MorseDict(m) # "" THEN Append(text, MorseDict(m))
    ELSE IF m = <<".", ".", ".", ".", ".", ".">> THEN <<>>
    ELSE text

\* C14 as stated: an Up gaze that starts with a fired event and is held past
\* up_hold_time leaves a space at the end of current_text and a buffer
\* without the dot appended at its onset.
C14_Original ==
    [][(HeldPast("UP", up_hold_time) /\ marks.run_fired) =>
           /\ EndsWith(handler'.current_text, " ")
           /\ Len(handler'.current_morse) < Len(handler.current_morse)]_vars

\* C14 (amended): an Up gaze that starts with a fired event and is held past
\* up_hold_time retracts the dot appended at its onset, completes the rest
\* of the buffer, and appends a space to current_text unless current_text is
\* then empty or already ends with a space; current_morse is empty
\* afterwards.
C14_UpHold ==
    [][(HeldPast("UP", up_hold_time) /\ marks.run_fired) =>
           LET text == TextWith(handler.current_text, ButLast(handler.current_morse))
           IN  /\ marks'.hold = "UP"
               /\ EndsWith(handler.current_morse, ".")
               /\ handler'.current_morse = <<>>
               /\ handler'.current_text =
                      IF text # <<>> /\ ~EndsWith(text, " ")
                      THEN Append(text, " ") ELSE text]_vars

\* A dot was in the buffer when an Up gaze began and was held: the dot of the
\* gaze is retracted, the earlier dot completed as E, and a space appended.
C14_Witness ==
    /\ marks.hold = "UP" /\ marks.run_fired
    /\ handler.current_text = <<"E", " ">>
    /\ handler.current_morse = <<>>

\* C15 (Down hold): when a Down gaze is held past down_hold_time, the pending
\* dash (the marker is "-" and the buffer ends with it) is retracted first;
\* then a non-empty buffer is cleared and current_text is unchanged, while
\* with an empty buffer exactly the last character of current_text is
\* deleted, and nothing changes if current_text is empty.
C15_DownHold ==
    [][HeldPast("DOWN", down_hold_time) =>
           LET rest == IF handler.pending_hold_symbol = "-"
                          /\ EndsWith(handler.current_morse, "-")
                       THEN ButLast(handler.current_morse)
                       ELSE handler.current_morse
           IN  /\ marks'.hold = "DOWN"
               /\ handler'.current_morse = <<>>
               /\ handler'.current_text =
                      IF rest # <<>> \/ handler.current_text = <<>>
                      THEN handler.current_text
                      ELSE ButLast(handler.current_text)]_vars

\* A Down hold with nothing but its own dash in the buffer has deleted the
\* last character of a text of two characters.
C15_Witness ==
    /\ marks.hold = "DOWN" /\ marks.run_fired
    /\ handler.current_text = <<"E">>
    /\ handler.current_morse = <<>>
    /\ symbols = 3

\* C16 (one hold action per hold): in a maximal run of ticks with the same
\* direction Up or Down and no head motion the hold action (space, or
\* clear/backspace) is executed at most once.
C16_HoldOnce == marks.holds <= 1

\* A tick of a run that goes on after its hold action was executed: the run
\* is past the hold time, the action is one tick or more in the past.
C16_Witness ==
    /\ run_dir = "DOWN"
    /\ marks.holds = 1 /\ marks.hold = "NONE"
    /\ marks.run_age >= down_hold_time
    /\ handler.hold_executed

\* C17 (letter completion): on a neutral tick that finds the neutral hold at
\* neutral_hold_time or more with a non-empty buffer, the whole buffer is
\* looked up, once, current_morse is empty afterwards and current_text (or
\* the text submitted on that tick) has grown by at most one character; a
\* neutral tick looks a buffer up only when the hold has lasted
\* neutral_hold_time; and no run of neutral ticks has more than one lookup.
C17_LetterCompletion ==
    [][/\ (marks'.neutral_age >= neutral_hold_time /\ handler.current_morse # <<>>) =>
              /\ marks'.looked = <<handler.current_morse>>
              /\ handler'.current_morse = <<>>
              /\ LET text == IF result'.text_submitted THEN result'.submitted_text
                             ELSE handler'.current_text
                 IN  \/ text = handler.current_text
                     \/ text = <<>>
                     \/ /\ Len(text) = Len(handler.current_text) + 1
                        /\ IsPrefix(handler.current_text, text)
       /\ (gaze_result'.direction = "NONE" /\ marks'.looked # <<>>) =>
              /\ marks'.neutral_age >= neutral_hold_time
              /\ neutral_run' >= neutral_hold_time
       /\ marks'.run_lookups <= 1]_vars

\* Dot, dot, dash were entered and the neutral hold that followed looked
\* the three symbols up together and appended one character; the hold goes on
\* and the latest tick looked nothing up.
C17_Witness ==
    /\ handler.current_text = <<"U">>
    /\ handler.current_morse = <<>>
    /\ handler.letter_completed
    /\ marks.run_lookups = 1 /\ marks.looked = <<>>
    /\ marks.neutral_age > neutral_hold_time

\* A buffer that neither table has an entry for.
Unknown(m) == m # <<>> /\ MorseDict(m) = "" /\ MorseCommands(m) = ""

\* C18 (unknown Morse sequence): when a neutral tick completes a buffer that
\* matches neither the character table nor the command table, current_morse
\* is empty afterwards and current_text (or the text submitted on that tick)
\* is what current_text was before; the call returns as any other.
C18_UnknownSequence ==
    [][(/\ gaze_result'.direction = "NONE"
        /\ marks'.looked = <<handler.current_morse>>
        /\ Unknown(handler.current_morse)) =>
           /\ handler'.current_morse = <<>>
           /\ handler'.letter_completed
           /\ (IF result'.text_submitted THEN result'.submitted_text
               ELSE handler'.current_text) = handler.current_text]_vars

\* A dot was completed to "E"; then four dashes, which no table has, were
\* entered and the neutral hold looked them up: the text is still "E".
C18_Witness ==
    /\ marks.looked = << <<"-", "-", "-", "-">> >>
    /\ handler.current_text = <<"E">>
    /\ handler.current_morse = <<>>
    /\ gaze_result.direction = "NONE"

\* C19 (submission): a neutral tick that finds the neutral hold at
\* submit_hold_ms or more completes the pending buffer, returns current_text
\* with the character completed on this tick as the submitted text, calls
\* the callback once with the same text and leaves current_text and
\* current_morse empty; no other tick calls the callback.
C19_Submission ==
    [][/\ marks'.neutral_age >= submit_hold_ms =>
              /\ result'.text_submitted
              /\ result'.submitted_text =
                     TextWith(handler.current_text, handler.current_morse)
              /\ callback' = <<result'.submitted_text>>
              /\ handler'.current_text = <<>>
              /\ handler'.current_morse = <<>>
       /\ callback' # <<>> => marks'.neutral_age >= submit_hold_ms]_vars

\* A submission that completed a character on the same tick: the text "E"
\* with the buffer dash was submitted as "ET".
C19_Witness ==
    /\ result.text_submitted
    /\ result.submitted_text = <<"E", "T">>
    /\ marks.looked = <<<<"-">>>>
    /\ callback = <<<<"E", "T">>>>
    /\ handler.current_text = <<>> /\ handler.current_morse = <<>>

\* C20 (what update returns): update returns a submission only on a tick with
\* head_moving = false, a baseline established and direction None on which
\* the neutral hold has lasted submit_hold_ms or more, both as the handler
\* times it and as the time since the neutral ticks began; every other tick
\* returns None.
C20_SubmissionOnly ==
    result.text_submitted =>
        /\ ~gaze_result.head_moving
        /\ gaze_result.baseline_established
        /\ gaze_result.direction = "NONE"
        /\ marks.neutral_age >= submit_hold_ms
        /\ neutral_run >= submit_hold_ms

\* A submission was returned after a neutral hold of submit_hold_ms.
C20_Witness ==
    /\ result.text_submitted
    /\ result.submitted_text = <<"A">>
    /\ neutral_run >= submit_hold_ms
    /\ marks.looked = <<>>

\* C21 (head-motion pause): a call with head_moving = true, whatever the
\* event holds, leaves current_morse and current_text as they were, clears
\* the directional hold timer and the neutral hold timer, and returns None
\* (no submission, no callback).
C21_HeadMotionPause ==
    [][gaze_result'.head_moving =>
           /\ handler'.current_morse = handler.current_morse
           /\ handler'.current_text = handler.current_text
           /\ handler'.hold_start_time = NoTime
           /\ handler'.neutral_hold_start = NoTime
           /\ result' = NoResult
           /\ callback' = <<>>]_vars

\* "E" was completed, dot and dash were entered, and the head moved while
\* the Down gaze was on, with an event that claims a fired Up gaze: the
\* buffers are kept and both timers are cleared.
C21_Witness ==
    /\ gaze_result.head_moving
    /\ gaze_result.gaze_detected /\ gaze_result.direction = "UP"
    /\ handler.current_text = <<"E">>
    /\ handler.current_morse = <<".", "-">>
    /\ handler.pending_hold_symbol = "-"
    /\ handler.hold_start_time = NoTime /\ handler.neutral_hold_start = NoTime

\* C22 (retraction exactness): a hold action works on the buffer without its
\* last symbol exactly when the run of ticks that holds the direction began
\* with a fired event and the buffer still ends with that event's symbol,
\* and on the whole buffer otherwise, so at most one symbol is retracted;
\* a processed tick whose direction differs from hold_direction leaves the
\* marker empty or set by that tick's own fired event; and a marker that is
\* set during a hold is the symbol the hold's fired event appended last.
C22_RetractionExact ==
    [][/\ marks'.hold # "NONE" =>
              LET sym == IF marks'.hold = "UP" THEN "." ELSE "-"
                  m == handler.current_morse
                  eff == IF marks.run_fired /\ EndsWith(m, sym) THEN ButLast(m) ELSE m
              IN  /\ handler'.pending_hold_symbol = "NONE"
                  /\ marks'.hold = "UP" =>
                         marks'.looked = IF eff = <<>> THEN <<>> ELSE <<eff>>
                  /\ marks'.hold = "DOWN" =>
                         /\ handler'.current_morse = <<>>
                         /\ handler'.current_text =
                                IF eff # <<>> \/ handler.current_text = <<>>
                                THEN handler.current_text
                                ELSE ButLast(handler.current_text)
       /\ (Processed' /\ gaze_result'.direction # handler.hold_direction) =>
              handler'.pending_hold_symbol =
                  IF gaze_result'.gaze_detected /\ gaze_result'.direction # "NONE"
                  THEN (IF gaze_result'.direction = "UP" THEN "." ELSE "-")
                  ELSE "NONE"
       /\ (handler'.pending_hold_symbol # "NONE" /\ handler'.hold_direction # "NONE") =>
              /\ marks'.run_fired /\ run_dir' = handler'.hold_direction
              /\ handler'.pending_hold_symbol =
                     (IF run_dir' = "UP" THEN "." ELSE "-")
              /\ EndsWith(handler'.current_morse, handler'.pending_hold_symbol)]_vars

\* Two dots were entered by two Up gazes and the second gaze was held: only
\* its own dot was retracted, the first was completed to "E" and a space
\* followed.
C22_Witness ==
    /\ marks.hold = "UP" /\ marks.run_fired
    /\ symbols = 2
    /\ marks.looked = << <<".">> >>
    /\ handler.current_text = <<"E", " ">>
    /\ handler.current_morse = <<>>

\* The list an add_gaze call works on: the list before it with the direction.
Appended == Append(manager.sequence_pattern, call'.direction)

\* The four patterns and their names.
Gestures ==
    { <<"mode_switch", <<"UP", "DOWN", "UP", "DOWN">> >>,
      <<"enter", <<"DOWN", "UP", "DOWN", "UP">> >>,
      <<"escape", <<"UP", "UP", "DOWN", "DOWN">> >>,
      <<"windows", <<"DOWN", "DOWN", "UP", "UP">> >> }

\* C23 (sequence completion): an add_gaze call that extends the list by the
\* next direction of one of the four patterns reports not-complete and keeps
\* the extended list while fewer than four directions are in it, and on the
\* fourth reports sequence_complete with that pattern's name and leaves the
\* list empty; so the four directions of a pattern, added in order from an
\* empty list, complete it on the fourth.
C23_SequenceCompletion ==
    [][call'.op = "add_gaze" =>
           \A g \in Gestures :
               IsPrefix(Appended, g[2]) =>
                   IF Appended = g[2]
                   THEN /\ sequence_result'.sequence_complete
                        /\ sequence_result'.sequence_type = g[1]
                        /\ manager'.sequence_pattern = <<>>
                   ELSE /\ ~sequence_result'.sequence_complete
                        /\ manager'.sequence_pattern = Appended]_vars

\* Down, Down, Up, Up were added and the fourth call completed "windows".
C23_Witness ==
    /\ call.op = "add_gaze"
    /\ call.before = <<"DOWN", "DOWN", "UP">> /\ call.direction = "UP"
    /\ sequence_result.sequence_complete
    /\ sequence_result.sequence_type = "windows"
    /\ manager.sequence_pattern = <<>>

\* The list is a strict prefix of a registered pattern.
StrictPrefix(list) ==
    \E g \in Gestures : Len(list) < Len(g[2]) /\ IsPrefix(list, g[2])

\* C24 (continue or reset): after add_gaze has appended the direction, a
\* list that is a strict prefix of a registered pattern is kept and the
\* result is Continuing (not complete, not invalid_cleared); a list that
\* neither equals nor is a prefix of any registered pattern is replaced by
\* the just-added direction alone, the start time is restarted, and the
\* result is Reset (invalid_cleared, not complete).
C24_ContinueOrReset ==
    [][call'.op = "add_gaze" =>
           /\ StrictPrefix(Appended) =>
                  /\ manager'.sequence_pattern = Appended
                  /\ sequence_result'.current_sequence = Appended
                  /\ ~sequence_result'.sequence_complete
                  /\ ~sequence_result'.invalid_cleared
           /\ (\A g \in Gestures : ~IsPrefix(Appended, g[2])) =>
                  /\ manager'.sequence_pattern = <<call'.direction>>
                  /\ sequence_result'.current_sequence = <<call'.direction>>
                  /\ manager'.sequence_start_time = 0
                  /\ sequence_result'.invalid_cleared
                  /\ ~sequence_result'.sequence_complete]_vars

\* Up, Down had been added 2000 ms ago when a second Down came: the list is
\* reset to that Down and the attempt starts again.
C24_Witness ==
    /\ call.op = "add_gaze"
    /\ call.before = <<"UP", "DOWN">> /\ call.direction = "DOWN" /\ call.dt = 2000
    /\ sequence_result.invalid_cleared
    /\ manager.sequence_pattern = <<"DOWN">>
    /\ manager.sequence_start_time = 0

\* The length of the longest registered pattern.
LongestPattern ==
    LET lengths == {Len(Registered[i].pattern) : i \in 1..Len(Registered)}
    IN  CHOOSE n \in lengths : \A k \in lengths : k <= n

\* C25 (bounded list): after any calls of add_gaze, check_timeouts and
\* clear_sequence the list is never longer than the longest registered
\* pattern, and an addition that brings it to that length leaves it empty
\* (completed) or holding the just-added direction alone (reset).
C25_BoundedList ==
    [][/\ Len(manager'.sequence_pattern) <= LongestPattern
       /\ (call'.op = "add_gaze" /\ Len(Appended) >= LongestPattern) =>
              \/ /\ manager'.sequence_pattern = <<>>
                 /\ sequence_result'.sequence_complete
              \/ /\ manager'.sequence_pattern = <<call'.direction>>
                 /\ sequence_result'.invalid_cleared]_vars

\* Up, Up, Down were in the list and an Up brought it to four directions
\* that match nothing: the list is that Up alone.
C25_Witness ==
    /\ call.op = "add_gaze"
    /\ call.before = <<"UP", "UP", "DOWN">> /\ call.direction = "UP"
    /\ sequence_result.invalid_cleared
    /\ manager.sequence_pattern = <<"UP">>

\* C26 (sequence timeout), as claimed: with check_timeouts called on the
\* tick, a direction added more than sequence_timeout_ms after the first
\* direction of the attempt leaves the list as that direction alone.
\* attempt is that time, with the additions after the first not counted.
C26_Original ==
    [][(/\ call'.op = "add_gaze" /\ call'.dt = 0
        /\ call.op = "check_timeouts"
        /\ attempt > sequence_timeout_ms) =>
           manager'.sequence_pattern = <<call'.direction>>]_vars

C29_Original ==
    [][(/\ Unsuppressed
        /\ Gazing /\ self.gaze_already_fired
        /\ self'.current_gaze_state = self.current_gaze_state) =>
           /\ ~event'.gaze_detected
           /\ event'.direction = self.current_gaze_state
           /\ event'.has_duration
           /\ event'.gaze_duration_ms = entered']_vars

\* The detector has a baseline, is not recalibrating, and says so.
Established ==
    /\ HasBaseline(self.baseline_y) /\ ~self.recalibrating
    /\ event.baseline_established

\* C30 (self-correction): whenever the detector is without a baseline or
\* recalibrating, and ticks keep arriving with time advancing and only
\* finitely many of them with head motion or a blink, it eventually has a
\* newly computed baseline, is out of recalibration and reports
\* baseline_established = true.
C30_SelfCorrection == Collecting ~> Established

\* The head moved on three ticks; the quiet ticks that followed waited for
\* the head to settle, collected a new baseline and report it.
C30_Witness ==
    /\ Established
    /\ head_ever /\ disturbed = MaxDisturbed
    /\ ~inp.head_moving /\ ~inp.is_blinking
    /\ event.disabled_reason = "None"

\* C31 (settle delay): on a tick without head motion that comes less than
\* settle_wait_ms after the latest tick at which head motion stopped, the
\* event reports no direction and the reason SETTLING and no sample is added
\* to the recalibration buffer; that time is counted from the latest stop,
\* and a tick at settle_wait_ms or later during recalibration is not
\* answered with SETTLING.
C31_SettleDelay ==
    [][/\ (~inp'.head_moving /\ stopped' < settle_wait_ms) =>
              /\ event'.disabled_reason = "SETTLING"
              /\ event'.direction = "NONE" /\ ~event'.gaze_detected
              /\ self'.samples = self.samples
              /\ self'.recalibration_frames = self.recalibration_frames
              /\ self'.recalibrating
       /\ (~inp'.head_moving /\ stopped' >= settle_wait_ms) =>
              event'.disabled_reason # "SETTLING"]_vars

\* The head stopped, samples were collected after the settle delay, the head
\* moved and stopped again, and the tick 100 ms after the second stop is
\* answered with SETTLING while the collected samples are kept.
C31_Witness ==
    /\ event.disabled_reason = "SETTLING"
    /\ ~inp.head_moving
    /\ stopped = 100
    /\ disturbed = MaxDisturbed
    /\ self.recalibration_frames > 0

\* The text a call leaves behind: what it submitted, or current_text.
TextAfter == IF result.text_submitted THEN result.submitted_text ELSE handler.current_text

\* C32 (command completion): when a call completes the buffer (gives it to
\* the character table), a buffer of six dots, which has no character,
\* leaves current_text and current_morse empty; a buffer with a character
\* appends that character to current_text; and current_morse is empty after
\* the call in every case.
C32_CommandCompletion ==
    [][marks'.looked # <<>> =>
           LET m == marks'.looked[1]
           IN  /\ handler'.current_morse = <<>>
               /\ m = <<".", ".", ".", ".", ".", ".">> =>
                      TextAfter' = <<>> /\ handler'.current_text = <<>>
               /\ MorseDict(m) # "" =>
                      TextAfter' = Append(handler.current_text, MorseDict(m))]_vars

\* A dash was completed to "T"; then six dots were entered and the neutral
\* hold completed them: the text and the buffer are empty.
C32_Witness ==
    /\ marks.looked = << <<".", ".", ".", ".", ".", ".">> >>
    /\ symbols = 7
    /\ handler.current_text = <<>>
    /\ handler.current_morse = <<>>
    /\ ~result.text_submitted

\* C33 (baseline flag), as claimed: after every tick the event's
\* baseline_established is false exactly when baseline_y is None, and an
\* event with baseline_established = false reports no direction.
C33_Original ==
    /\ event.baseline_established <=> HasBaseline(self.baseline_y)
    /\ ~event.baseline_established => event.direction = "NONE"

\* C34 (a fired event marks the entry tick): every event with gaze_detected
\* comes from the tick at which the current gaze state was entered, carries
\* gaze_duration_ms = 0 and carries is_continuous_gaze = false.
C34_EntryTickOnly ==
    event.gaze_detected =>
        /\ Gazing /\ entered = 0
        /\ event.has_duration /\ event.gaze_duration_ms = 0
        /\ event.has_continuous /\ ~event.is_continuous_gaze

\* The second fired event: a gaze was entered and left, and the tick that
\* enters Up after it fires with a duration of 0.
C34_Witness ==
    /\ event.gaze_detected /\ event.direction = "UP"
    /\ symbols = 2
    /\ held = 0
    /\ Len(fed) >= 3
    /\ self.gaze_start_time = 0

\* C35 (no direct reversal): no tick changes the gaze state from Up to Down
\* or from Down to Up, and an event fires only on a tick that found the gaze
\* state Neutral, so a tick whose resulting state is Neutral lies between an
\* Up state and a Down state and the opposite direction fires on a later
\* tick than the exit.
C35_NoDirectReversal ==
    [][/\ ~(self.current_gaze_state = "UP" /\ self'.current_gaze_state = "DOWN")
       /\ ~(self.current_gaze_state = "DOWN" /\ self'.current_gaze_state = "UP")
       /\ event'.gaze_detected => self.current_gaze_state = "NONE"]_vars

\* The position went from above the Up threshold straight to below the Down
\* threshold: the first tick there left Up for Neutral and the second one
\* fired Down.
C35_Witness ==
    /\ event.gaze_detected /\ event.direction = "DOWN"
    /\ Len(fed) >= 3
    /\ fed[Len(fed) - 2] = 480
    /\ fed[Len(fed) - 1] = 510
    /\ fed[Len(fed)] = 510

\* C36 (reset), as claimed: once reset() has been called, every update
\* returns the event that a detector constructed at the time of the reset
\* returns for the same arguments.
C36_Original == twin.on => event = twin.event

\* The symbols a hold action finds in the buffer once the symbol appended at
\* the onset of the gaze is taken back.
Remaining ==
    IF handler.pending_hold_symbol # "NONE"
       /\ EndsWith(handler.current_morse, handler.pending_hold_symbol)
    THEN ButLast(handler.current_morse)
    ELSE handler.current_morse

\* C37 (empty buffer after a hold action): a call that executes a hold
\* action leaves current_morse empty; an Up hold gives the remaining symbols
\* to the character table, together and before the space, and a Down hold
\* that finds remaining symbols drops them without a lookup and leaves
\* current_text as it was.
C37_EmptyAfterHold ==
    [][marks'.hold # "NONE" =>
           /\ handler'.current_morse = <<>>
           /\ marks'.hold = "UP" =>
                  /\ marks'.looked = IF Remaining = <<>> THEN <<>> ELSE <<Remaining>>
                  /\ IsPrefix(TextWith(handler.current_text, Remaining),
                              handler'.current_text)
           /\ marks'.hold = "DOWN" =>
                  /\ marks'.looked = <<>>
                  /\ Remaining # <<>> => handler'.current_text = handler.current_text]_vars

\* A dash was entered, then an Up gaze was held: its dot was taken back, the
\* dash was converted to "T" and the space came after it.
C37_Witness ==
    /\ marks.hold = "UP"
    /\ marks.looked = << <<"-">> >>
    /\ handler.current_text = <<"T", " ">>
    /\ handler.current_morse = <<>>
    /\ symbols = 2

\* C38 (no empty submission), as claimed: a call returns a submission and
\* calls the callback only with a non-empty text.
C38_Original ==
    /\ result.text_submitted => result.submitted_text # <<>>
    /\ \A i \in 1..Len(callback) : callback[i] # <<>>

\* C39 (the list is a prefix): after every add_gaze and every check_timeouts
\* call the in-progress list is empty, or it is shorter than some pattern of
\* the registry and equal to the beginning of that pattern.
C39_PrefixInvariant ==
    call.op \in {"add_gaze", "check_timeouts"} =>
        \/ manager.sequence_pattern = <<>>
        \/ \E i \in 1..Len(sequences) :
               /\ Len(manager.sequence_pattern) < Len(sequences[i].pattern)
               /\ \A k \in 1..Len(manager.sequence_pattern) :
                      manager.sequence_pattern[k] = sequences[i].pattern[k]

\* A list of three directions was continued with a direction that no
\* pattern has in fourth place: the list is that direction alone.
C39_Witness ==
    /\ call.op = "add_gaze"
    /\ Len(call.before) = 3
    /\ sequence_result.invalid_cleared
    /\ manager.sequence_pattern = <<call.direction>>

\* C40 (one hold action per excursion), as claimed: in the pipeline with a
\* steady head, at most one hold action is executed between a fired event
\* and the next one, whatever blink and reading-movement ticks come between.
C40_Original == held <= 1

====
